---- MODULE Spec2Model ----
(***************************************************************************)
(* A model of the offline client's console RPC layer                       *)
(* (src/offline/js/protocol.js) and of the LLM router                      *)
(* (src/offline/js/llm-router.js): generate, which the RPC host drives,    *)
(* and the load and unload methods, init, getBackends and isAvailable; and *)
(* of the configuration store of OfflineStorage                            *)
(* (src/offline/js/storage.js); and of the emulator: EmulatorController    *)
(* (src/offline/js/emulator.js), its worker (src/offline/worker.js), the   *)
(* methods of AyoApp that create and start it (src/unnamed/part_002) and   *)
(* the input buffer of TerminalManager (src/offline/js/storage.js).        *)
(*                                                                         *)
(* Text is a sequence of symbols.  The two markers are spelled out symbol  *)
(* by symbol (ESC ] A Y O ; and BEL).  A JSON body is a sequence of        *)
(* tokens: "{", a type token, an id token, the escaped payload symbols     *)
(* and "}".  The ts field (Date.now()) of a message is left out: no        *)
(* handler reads it.                                                       *)
(***************************************************************************)
EXTENDS Integers, Sequences, FiniteSets, TLC

\* ------------------------------------------------------------------ bounds
MaxId == 2
MaxSegs == 2
MaxInputs == 2
MaxReqs == 2
MaxChunks == 2
MaxPings == 1
MaxCalls == 3
MaxLen == 2
MaxMsgs == 2
MaxInits == 3
MaxOps == 3
MaxTyped == 3

\* ------------------------------------------------------- protocol constants
ESC == "ESC"
BEL == "BEL"
OSC_START == <<ESC, "]", "A", "Y", "O", ";">>
OSC_END == <<BEL>>

LLM_REQUEST == "llm:request"
LLM_CANCEL == "llm:cancel"
LLM_CHUNK == "llm:chunk"
LLM_ERROR == "llm:error"
LLM_DONE == "llm:done"
PING == "ping"
PONG == "pong"
MessageType == {LLM_REQUEST, LLM_CANCEL, LLM_CHUNK, LLM_ERROR, LLM_DONE, PING, PONG}

Ids == 0..MaxId
IdTok(i) == <<"0", "1", "2", "3", "4", "5", "6", "7", "8", "9">>[i + 1]
IdToks == {IdTok(i) : i \in Ids}
IdOfTok(t) == CHOOSE i \in Ids : IdTok(i) = t

\* ---------------------------------------------------------- string helpers
\* JS String.prototype.substring(a, b) on a 0-based string.
Substring(s, a, b) == SubSeq(s, a + 1, b)

\* JS String.prototype.substring(a).
SubstringFrom(s, a) == SubSeq(s, a + 1, Len(s))

MatchesAt(s, pat, i) ==
    /\ i + Len(pat) <= Len(s)
    /\ \A k \in 1..Len(pat) : s[i + k] = pat[k]

\* JS String.prototype.indexOf(pat, from): the least 0-based index >= from
\* at which pat occurs, or -1.
IndexOf(s, pat, from) ==
    LET hits == {i \in from..(Len(s) - Len(pat)) : MatchesAt(s, pat, i)}
    IN IF hits = {} THEN -1 ELSE CHOOSE i \in hits : \A j \in hits : i <= j

\* ------------------------------------------------------------------ JSON
\* A stringify that writes every symbol as it is.
EscapeSymRaw(c) == <<c>>

\* JSON.stringify of a payload string escapes the control characters and the
\* backslash; every other symbol is written as it is.
EscapeSym(c) ==
    IF c = BEL THEN <<"\\", "u7">>
    ELSE IF c = ESC THEN <<"\\", "u1b">>
    ELSE IF c = "\\" THEN <<"\\", "\\">>
    ELSE <<c>>

RECURSIVE EscapeStr(_)
EscapeStr(s) ==
    IF s = <<>> THEN <<>> ELSE EscapeSym(Head(s)) \o EscapeStr(Tail(s))

JSONstringify(m) ==
    <<"{", m.type, IdTok(m.id)>> \o EscapeStr(m.data) \o <<"}">>

\* The payload symbols between the id token and the closing brace.
\* A raw control character or a dangling backslash is a syntax error.
RECURSIVE UnescapeStr(_)
UnescapeStr(s) ==
    IF s = <<>> THEN [ok |-> TRUE, str |-> <<>>]
    ELSE IF Head(s) = "\\" THEN
        IF Len(s) < 2 THEN [ok |-> FALSE, str |-> <<>>]
        ELSE LET c == s[2]
                 rest == UnescapeStr(SubSeq(s, 3, Len(s)))
                 sym == IF c = "u7" THEN BEL ELSE IF c = "u1b" THEN ESC ELSE "\\"
             IN IF c \in {"u7", "u1b", "\\"} /\ rest.ok
                THEN [ok |-> TRUE, str |-> <<sym>> \o rest.str]
                ELSE [ok |-> FALSE, str |-> <<>>]
    ELSE IF Head(s) \in {BEL, ESC, "{", "}"} THEN [ok |-> FALSE, str |-> <<>>]
    ELSE LET rest == UnescapeStr(Tail(s))
         IN IF rest.ok THEN [ok |-> TRUE, str |-> <<Head(s)>> \o rest.str]
            ELSE [ok |-> FALSE, str |-> <<>>]

NoMessage == [type |-> "", id |-> 0, data |-> <<>>]

\* JSON.parse: ok = FALSE stands for the SyntaxError it throws.
JSONparse(s) ==
    IF /\ Len(s) >= 4
       /\ s[1] = "{"
       /\ s[Len(s)] = "}"
       /\ s[2] \in MessageType
       /\ s[3] \in IdToks
       /\ UnescapeStr(SubSeq(s, 4, Len(s) - 1)).ok
    THEN [ok |-> TRUE,
          msg |-> [type |-> s[2], id |-> IdOfTok(s[3]),
                   data |-> UnescapeStr(SubSeq(s, 4, Len(s) - 1)).str]]
    ELSE [ok |-> FALSE, msg |-> NoMessage]

encodeMessage(type, id, data) ==
    OSC_START \o JSONstringify([type |-> type, id |-> id, data |-> data]) \o OSC_END

\* ------------------------------------------------------------- promises
\* A promise made by registerRequest.  resolveCalls and rejectCalls count
\* the invocations of its two handles; state follows the first of them.
\* kind names the caller (generate or ping);
\* seen lists the messages parsed for its id while its handles were stored
\* in pendingRequests; cancelled is set once cancelRequest removed them.
NewPromise(id, kind) ==
    [id |-> id, kind |-> kind, state |-> "pending",
     resolveCalls |-> 0, rejectCalls |-> 0, cancelled |-> FALSE, seen |-> <<>>]

CallResolve(ps, p) ==
    [ps EXCEPT ![p].resolveCalls = @ + 1,
               ![p].state = IF @ = "pending" THEN "resolved" ELSE @]

CallReject(ps, p) ==
    [ps EXCEPT ![p].rejectCalls = @ + 1,
               ![p].state = IF @ = "pending" THEN "rejected" ELSE @]

\* Map.prototype.delete on a map held as a function.
MapDelete(m, k) == [x \in (DOMAIN m) \ {k} |-> m[x]]

\* Map.prototype.set.
MapSet(m, k, v) == [x \in (DOMAIN m) \cup {k} |-> IF x = k THEN v ELSE m[x]]

EmptyMap == [x \in {} |-> 0]

\* ---------------------------------------------------------------- parse
\* The handling of one decoded message against the pending requests
\* (the body of the `if (message.id && pendingRequests.has(message.id))`).
HandlePending(st, message) ==
    IF message.id /= 0 /\ message.id \in DOMAIN st.pending THEN
        LET p == st.pending[message.id]
            st0 == [st EXCEPT !.promises[p].seen = Append(@, message)]
        IN
        IF message.type = LLM_ERROR THEN
            [st0 EXCEPT !.promises = CallReject(@, p)]
        ELSE IF message.type = LLM_DONE THEN
            [st0 EXCEPT !.promises = CallResolve(@, p),
                        !.pending = MapDelete(@, message.id)]
        ELSE st0
    ELSE st

\* parse, no start marker in the buffer: everything is regular output and
\* the buffer is emptied.  st.off is the stream offset of st.buffer[1];
\* outPos and msgPos record, for each output symbol and each decoded
\* message, the stream offset it came from.
FlushAll(st) ==
    [st EXCEPT !.output = @ \o st.buffer,
               !.outPos = @ \o [k \in 1..Len(st.buffer) |-> st.off + k - 1],
               !.off = @ + Len(st.buffer),
               !.buffer = <<>>]

\* parse, a start marker at startIdx: everything before it is output.
OutputBefore(st, startIdx) ==
    [st EXCEPT !.output = @ \o Substring(st.buffer, 0, startIdx),
               !.outPos = @ \o [k \in 1..startIdx |-> st.off + k - 1]]

\* A parse that forgets the incomplete message instead of keeping it.
KeepIncompleteDropped(st, startIdx) ==
    [st EXCEPT !.buffer = <<>>, !.off = @ + Len(st.buffer)]

\* A parse that keeps the whole buffer when the message is incomplete.
KeepIncompleteWhole(st, startIdx) == st

\* parse, no end marker after the start marker: the incomplete message
\* stays in the buffer.
KeepIncomplete(st, startIdx) ==
    [st EXCEPT !.buffer = SubstringFrom(st.buffer, startIdx),
               !.off = @ + startIdx]

\* An extraction that hands on whatever JSON.parse was given.
ExtractMessageUnchecked(st, startIdx, endIdx) ==
    LET jsonStr == Substring(st.buffer, startIdx + Len(OSC_START), endIdx)
        parsed == JSONparse(jsonStr)
    IN HandlePending([st EXCEPT !.messages = Append(@, parsed.msg),
                                !.msgPos = Append(@, st.off + startIdx)],
                     parsed.msg)

\* parse, a complete message between startIdx and endIdx: JSON.parse inside
\* the try; a SyntaxError is caught and logged.
ExtractMessage(st, startIdx, endIdx) ==
    LET jsonStr == Substring(st.buffer, startIdx + Len(OSC_START), endIdx)
        parsed == JSONparse(jsonStr)
    IN IF parsed.ok
       THEN HandlePending([st EXCEPT !.messages = Append(@, parsed.msg),
                                     !.msgPos = Append(@, st.off + startIdx)],
                          parsed.msg)
       ELSE st

\* parse: the processed message is removed from the buffer.
RemoveProcessed(st, endIdx) ==
    [st EXCEPT !.buffer = SubstringFrom(st.buffer, endIdx + Len(OSC_END)),
               !.off = @ + endIdx + Len(OSC_END)]

\* The while (true) loop of parse.
RECURSIVE ParseLoop(_)
ParseLoop(st) ==
    LET startIdx == IndexOf(st.buffer, OSC_START, 0) IN
    IF startIdx = -1 THEN FlushAll(st)
    ELSE
        LET st1 == OutputBefore(st, startIdx)
            endIdx == IndexOf(st.buffer, OSC_END, startIdx)
        IN IF endIdx = -1 THEN KeepIncomplete(st1, startIdx)
           ELSE ParseLoop(RemoveProcessed(ExtractMessage(st1, startIdx, endIdx), endIdx))

\* ProtocolParser.parse(data) on a parser with the given buffer, pending
\* requests and promises; off is the stream offset of the buffer's start.
parse(buf, pending, ps, off, data) ==
    ParseLoop([buffer |-> buf \o data, output |-> <<>>, messages |-> <<>>,
               pending |-> pending, promises |-> ps,
               off |-> off, outPos |-> <<>>, msgPos |-> <<>>])


\* ================================================================ state
\* ProtocolParser: buffer, pendingRequests (id -> index of the promise whose
\* resolve/reject pair is stored) and nextId; promises are the promises
\* registerRequest has made.
VARIABLES buffer, pendingRequests, nextId, promises

\* The stream fed to the parser: the segments it is made of, how much of it
\* has been fed, and what the parse calls have returned so far (the stream
\* offsets of the output symbols, the messages and the offsets of their
\* frames); the frames whose complete start marker arrived in a call that
\* did not hold their end marker; whether a call boundary fell inside a
\* start marker.
VARIABLES segs, pos, outPosAcc, msgAcc, msgPosAcc, openFrames, markerCut

\* LLMRPCClient: the frame it wrote last to the console (a sink, of which
\* the model keeps the latest); the ids generateId has
\* returned; the invocations of each generate call's onChunk callback (one
\* entry per promise); the number of processInput calls; the last operation
\* performed on the client or its parser, with its argument and, for a
\* parse, the messages it returned.
VARIABLES written, returnedIds, onChunkCalls, inputs, lastOp

\* LLMRPCHost: activeRequests (id -> the handleLLMRequest call whose
\* AbortController is stored), the handleLLMRequest calls made so far (reqs)
\* and the frames written to the VM console, each with the call that wrote
\* it (hostOut).
VARIABLES activeRequests, reqs, hostOut

\* LLMRouter: the fields generate reads, and the configuration it finds in
\* storage and in the browser.
VARIABLES webllmEngine, wllamaInstance, currentModel, currentBackend, providers,
          activeLocalModel, webgpuAvailable, wasmAvailable

\* The calls made on the router from outside the RPC host (the load and
\* unload methods), each with where it is suspended.
VARIABLES calls

\* OfflineStorage: the records of the config object store (key -> record)
\* and the encryptionKey field; the last call made on the storage or on the
\* router's init, getBackends and isAvailable, with its result (lastCall);
\* for each key, the value of the latest setConfig call that no deleteConfig
\* call has followed (lastSet); the keys the store held when init() listed
\* them last (initKeys).
VARIABLES db, encryptionKey, lastCall, lastSet, initKeys

\* A message handed to encodeMessage with the frame it gave (encoded), and
\* what a parser fed that frame returned (extracted).
VARIABLES encoded, extracted

\* The messages of a generate call (request) and what a backend adapter
\* handed its backend for them (backendCall).
VARIABLES request, backendCall

\* AyoApp: the EmulatorController objects it has constructed, each with the
\* worker it created (emus); its fields emulator and emulatorInitPromise
\* (0 for null, else the index of the controller, or of the controller the
\* promise is for), activeTab, mode and terminal (set or not); the
\* initEmulator calls made so far, each with what it was handed.
VARIABLES emus, emulator, emulatorInitPromise, activeTab, mode, terminal, initCalls

\* TerminalManager: inputBuffer; the number of symbols typed so far (the
\* k-th symbol typed is k).
VARIABLES inputBuffer, typed

parserVars == <<buffer, pendingRequests, nextId, promises>>
hostVars == <<activeRequests, reqs, hostOut>>
routerVars == <<webllmEngine, wllamaInstance, currentModel, currentBackend, providers,
                activeLocalModel, webgpuAvailable, wasmAvailable, calls>>
streamVars == <<segs, pos, outPosAcc, msgAcc, msgPosAcc, openFrames, markerCut>>
clientVars == <<written, returnedIds, onChunkCalls, inputs, lastOp>>
storageVars == <<db, encryptionKey, lastCall, lastSet, initKeys>>
codecVars == <<encoded, extracted>>
adapterVars == <<request, backendCall>>
emuVars == <<emus, emulator, emulatorInitPromise, activeTab, mode, terminal, initCalls,
             inputBuffer, typed>>
otherVars == <<storageVars, codecVars, adapterVars, emuVars>>

Op(op, id, msgs) == [op |-> op, id |-> id, msgs |-> msgs]

\* The constructor of LLMRPCClient, apart from its parser.
ClientIdle ==
    /\ written = <<>>
    /\ returnedIds = <<>>
    /\ onChunkCalls = <<>>
    /\ inputs = 0
    /\ lastOp = Op("new", 0, <<>>)

\* The constructor of ProtocolParser.
ParserInit ==
    /\ buffer = <<>>
    /\ pendingRequests = EmptyMap
    /\ nextId = 1
    /\ promises = <<>>

StreamIdle ==
    /\ segs = <<>>
    /\ pos = 0
    /\ outPosAcc = <<>>
    /\ msgAcc = <<>>
    /\ msgPosAcc = <<>>
    /\ openFrames = {}
    /\ markerCut = FALSE

null == "null"

\* The constructor of OfflineStorage and an empty config store.
StorageIdle ==
    /\ db = EmptyMap
    /\ encryptionKey = null
    /\ lastCall = [op |-> "new"]
    /\ lastSet = EmptyMap
    /\ initKeys = [done |-> FALSE, keys |-> {}]

NoParse == [done |-> FALSE, output |-> <<>>, messages |-> <<>>, buffer |-> <<>>]

CodecIdle ==
    /\ encoded = [message |-> NoMessage, frame |-> <<>>]
    /\ extracted = NoParse

\* No backend call made yet.
NoBackendCall == [adapter |-> "", system |-> null, messages |-> <<>>, prompt |-> <<>>]

AdapterIdle ==
    /\ request = <<>>
    /\ backendCall = NoBackendCall

\* The constructor of AyoApp; no TerminalManager yet.
EmuIdle ==
    /\ emus = <<>>
    /\ emulator = 0
    /\ emulatorInitPromise = 0
    /\ activeTab = "chat"
    /\ mode = "detecting"
    /\ terminal = FALSE
    /\ initCalls = <<>>
    /\ inputBuffer = <<>>
    /\ typed = 0

OtherIdle == StorageIdle /\ CodecIdle /\ AdapterIdle /\ EmuIdle

\* The constructor of LLMRPCHost, apart from its parser.
HostIdle ==
    /\ activeRequests = EmptyMap
    /\ reqs = <<>>
    /\ hostOut = <<>>

\* The constructor of LLMRouter, in a browser with neither WebGPU nor
\* WebAssembly and an empty store.
RouterIdle ==
    /\ webllmEngine = null
    /\ wllamaInstance = null
    /\ currentModel = null
    /\ currentBackend = null
    /\ providers = <<>>
    /\ activeLocalModel = null
    /\ webgpuAvailable = FALSE
    /\ wasmAvailable = FALSE
    /\ calls = <<>>

\* ------------------------------------------------- the stream of SpecParse
TextSegs == {<<"a">>, <<ESC>>}
FrameSegs == {encodeMessage(LLM_DONE, 1, <<>>), encodeMessage(LLM_CHUNK, 2, <<"h">>)}
\* Frames whose body JSON.parse rejects: a truncated object, and no body.
BadFrameSegs == {OSC_START \o <<"{", LLM_DONE>> \o OSC_END, OSC_START \o OSC_END}
Segments == TextSegs \cup FrameSegs \cup BadFrameSegs

RECURSIVE Flatten(_)
Flatten(ss) == IF ss = <<>> THEN <<>> ELSE Head(ss) \o Flatten(Tail(ss))

Stream == Flatten(segs)

\* The frames of the stream: s is the offset of the start marker, e the
\* offset after the end marker, msg the message of the body.
FramesOf(ss) ==
    {[s |-> Len(Flatten(SubSeq(ss, 1, k - 1))),
      e |-> Len(Flatten(SubSeq(ss, 1, k))),
      msg |-> JSONparse(Substring(ss[k], Len(OSC_START), Len(ss[k]) - Len(OSC_END))).msg]
        : k \in {j \in 1..Len(ss) : ss[j] \in FrameSegs}}

Frames == FramesOf(segs)

\* The frames of the stream whose body is not valid JSON.
BadFramesOf(ss) ==
    {[s |-> Len(Flatten(SubSeq(ss, 1, k - 1))),
      e |-> Len(Flatten(SubSeq(ss, 1, k))),
      msg |-> NoMessage]
        : k \in {j \in 1..Len(ss) : ss[j] \in BadFrameSegs}}

BadFrames == BadFramesOf(segs)

Count(seq, x) == Cardinality({k \in 1..Len(seq) : seq[k] = x})

\* One parse call on the next n symbols of the stream.
Feed(n) ==
    LET data == SubSeq(Stream, pos + 1, pos + n)
        r == parse(buffer, pendingRequests, promises, pos - Len(buffer), data)
        to == pos + n
    IN /\ buffer' = r.buffer
       /\ pendingRequests' = r.pending
       /\ promises' = r.promises
       /\ pos' = to
       /\ outPosAcc' = outPosAcc \o r.outPos
       /\ msgAcc' = msgAcc \o r.messages
       /\ msgPosAcc' = msgPosAcc \o r.msgPos
       /\ openFrames' = openFrames \cup
              {f.s : f \in {g \in Frames \cup BadFrames : /\ pos <= g.s
                                           /\ g.s + Len(OSC_START) <= to
                                           /\ to < g.e}}
       /\ markerCut' = (markerCut \/
              \E f \in Frames \cup BadFrames : f.s < to /\ to < f.s + Len(OSC_START))
       /\ UNCHANGED <<nextId, segs, clientVars, hostVars, routerVars, otherVars>>

ParseInit ==
    /\ ParserInit
    /\ ClientIdle
    /\ HostIdle
    /\ RouterIdle
    /\ OtherIdle
    /\ segs \in UNION {[1..k -> Segments] : k \in 0..MaxSegs}
    /\ pos = 0
    /\ outPosAcc = <<>>
    /\ msgAcc = <<>>
    /\ msgPosAcc = <<>>
    /\ openFrames = {}
    /\ markerCut = FALSE

ParseNext == \E n \in 1..(Len(Stream) - pos) : Feed(n)

vars == <<parserVars, streamVars, clientVars, hostVars, routerVars, otherVars>>

SpecParse == ParseInit /\ [][ParseNext]_vars

\* What a single parse call on everything fed so far returns.
WholeParse == parse(<<>>, EmptyMap, <<>>, 0, SubSeq(Stream, 1, pos))

OutAcc == [k \in 1..Len(outPosAcc) |-> Stream[outPosAcc[k] + 1]]

\* C1: for every way of cutting the stream into chunks, the concatenated
\* outputs and the concatenated message lists of the chunked parse calls
\* equal the output and the messages of one parse call on the whole stream.
C1_ChunkedEqualsWhole ==
    /\ OutAcc = WholeParse.output
    /\ msgAcc = WholeParse.messages

\* The same, for the runs in which no call boundary fell inside a start
\* marker.
ChunkedEqualsWholeUnlessMarkerCut ==
    ~markerCut => C1_ChunkedEqualsWhole

\* C2: a frame whose complete start marker arrived in one call and whose
\* end marker arrives in a later call yields no message before the call
\* with the end marker and exactly one (its own) from then on, and none of
\* its symbols is ever output.
C2_SplitFrame ==
    \A f \in Frames :
        f.s \in openFrames =>
            /\ Count(msgPosAcc, f.s) = (IF pos >= f.e THEN 1 ELSE 0)
            /\ \A k \in 1..Len(msgPosAcc) : msgPosAcc[k] = f.s => msgAcc[k] = f.msg
            /\ \A k \in 1..Len(outPosAcc) : ~(f.s <= outPosAcc[k] /\ outPosAcc[k] < f.e)

C2_Witness ==
    \E f \in Frames :
        /\ f.s \in openFrames
        /\ pos >= f.e
        /\ Count(msgPosAcc, f.s) = 1
        /\ Len(outPosAcc) > 0


\* ======================================================= the RPC client
\* A generateId that returns nextId without advancing it.
generateIdNoIncrement(next) == [id |-> next, next |-> next]

\* ProtocolParser.generateId: the id returned and the new nextId.
generateId(next) == [id |-> next, next |-> next + 1]

\* ProtocolParser.registerRequest: a new promise whose handles are stored
\* under id.
registerRequest(pending, ps, id, kind) ==
    [promises |-> Append(ps, NewPromise(id, kind)),
     pending |-> MapSet(pending, id, Len(ps) + 1)]

\* A cancelRequest that leaves the entry in the map.
cancelRequestNoDelete(pending, id) == pending

\* ProtocolParser.cancelRequest.
cancelRequest(pending, id) == MapDelete(pending, id)

\* The promises after cancelRequest(id): the one whose handles were stored
\* under id is marked.
MarkCancelled(pending, ps, id) ==
    IF id \in DOMAIN pending THEN [ps EXCEPT ![pending[id]].cancelled = TRUE] ELSE ps

\* LLMRPCClient.generate(params, onChunk): onChunk is a parameter that the
\* body never stores or calls.
Generate ==
    /\ nextId <= MaxId
    /\ LET g == generateId(nextId)
           r == registerRequest(pendingRequests, promises, g.id, "generate")
       IN /\ nextId' = g.next
          /\ returnedIds' = Append(returnedIds, g.id)
          /\ written' = encodeMessage(LLM_REQUEST, g.id, <<>>)
          /\ promises' = r.promises
          /\ pendingRequests' = r.pending
          /\ lastOp' = Op("generate", g.id, <<>>)
    /\ onChunkCalls' = Append(onChunkCalls, <<>>)
    /\ UNCHANGED <<buffer, inputs, streamVars, hostVars, routerVars, otherVars>>

\* LLMRPCClient.ping(): up to the await of the registered promise; the
\* promise ping() returns settles as that promise does.
Ping ==
    /\ nextId <= MaxId
    /\ LET g == generateId(nextId)
           r == registerRequest(pendingRequests, promises, g.id, "ping")
       IN /\ nextId' = g.next
          /\ returnedIds' = Append(returnedIds, g.id)
          /\ written' = encodeMessage(PING, g.id, <<>>)
          /\ promises' = r.promises
          /\ pendingRequests' = r.pending
          /\ lastOp' = Op("ping", g.id, <<>>)
    /\ onChunkCalls' = Append(onChunkCalls, <<>>)
    /\ UNCHANGED <<buffer, inputs, streamVars, hostVars, routerVars, otherVars>>

\* LLMRPCClient.cancel(id).
Cancel(id) ==
    /\ written' = encodeMessage(LLM_CANCEL, id, <<>>)
    /\ pendingRequests' = cancelRequest(pendingRequests, id)
    /\ promises' = MarkCancelled(pendingRequests, promises, id)
    /\ lastOp' = Op("cancel", id, <<>>)
    /\ UNCHANGED <<buffer, nextId, returnedIds, onChunkCalls, inputs, streamVars, hostVars,
                   routerVars, otherVars>>

\* What the console feeds the client in one processInput call: a frame from
\* the host, the first or the second part of a terminal frame, or a symbol
\* of text.
HostFrames ==
    {encodeMessage(t, i, <<>>) : t \in {LLM_DONE, LLM_ERROR, PONG}, i \in 1..MaxId}
        \cup {encodeMessage(LLM_CHUNK, i, <<c>>) : i \in 1..MaxId, c \in {"h", "l"}}
SplitFrames == {encodeMessage(t, i, <<>>) : t \in {LLM_DONE, LLM_ERROR}, i \in 1..MaxId}
SplitAt == Len(OSC_START) + 2
InputData ==
    HostFrames
        \cup {SubSeq(f, 1, SplitAt) : f \in SplitFrames}
        \cup {SubSeq(f, SplitAt + 1, Len(f)) : f \in SplitFrames}
        \cup {<<"a">>}

\* LLMRPCClient.processInput(data).
ProcessInput(data) ==
    /\ inputs < MaxInputs
    /\ inputs' = inputs + 1
    /\ LET r == parse(buffer, pendingRequests, promises, 0, data)
       IN /\ buffer' = r.buffer
          /\ pendingRequests' = r.pending
          /\ promises' = r.promises
          /\ lastOp' = Op("parse", 0, r.messages)
    /\ UNCHANGED <<nextId, written, returnedIds, onChunkCalls, streamVars, hostVars,
                   routerVars, otherVars>>

ClientInit ==
    ParserInit /\ ClientIdle /\ StreamIdle /\ HostIdle /\ RouterIdle /\ OtherIdle

ClientNext ==
    \/ Generate
    \/ Ping
    \/ \E id \in 1..MaxId : Cancel(id)
    \/ \E data \in InputData : ProcessInput(data)

SpecClient == ClientInit /\ [][ClientNext]_vars


\* --------------------------------------------------- claims on the client
\* C3: generateId returns 1 on its first call and then strictly greater
\* values, whatever other operations are interleaved.
C3_IdsIncreasing ==
    /\ Len(returnedIds) >= 1 => returnedIds[1] = 1
    /\ \A i, j \in 1..Len(returnedIds) : i < j => returnedIds[i] < returnedIds[j]

C3_Witness ==
    /\ Len(returnedIds) >= 2
    /\ inputs >= 1
    /\ \E p \in 1..Len(promises) : promises[p].cancelled
    /\ \E p \in 1..Len(promises) : promises[p].kind = "ping"

IsTerminal(m) == m.type \in {LLM_DONE, LLM_ERROR}

\* C4: after cancel(id) the id is not pending; a promise whose request was
\* cancelled is never resolved or rejected afterwards; a parse whose
\* messages all carry ids that are not pending leaves the pending set and
\* every promise as they were.
C4_CancelIsFinal ==
    /\ [](lastOp.op = "cancel" => lastOp.id \notin DOMAIN pendingRequests)
    /\ [][\A p \in 1..Len(promises) :
              promises[p].cancelled => promises'[p] = promises[p]]_vars
    /\ [][(/\ lastOp'.op = "parse"
           /\ \A k \in 1..Len(lastOp'.msgs) :
                  lastOp'.msgs[k].id \notin DOMAIN pendingRequests)
            => (pendingRequests' = pendingRequests /\ promises' = promises)]_vars

C4_Witness ==
    \E p \in 1..Len(promises) :
        /\ promises[p].cancelled
        /\ promises[p].state = "pending"
        /\ lastOp.op = "parse"
        /\ \E k \in 1..Len(lastOp.msgs) :
               lastOp.msgs[k].id = promises[p].id /\ IsTerminal(lastOp.msgs[k])

\* C5: a pending id is no longer pending once parse has processed an
\* llm:done or an llm:error frame for it.
C5_TerminalRemoves ==
    [][lastOp'.op = "parse" =>
          \A k \in 1..Len(lastOp'.msgs) :
              (IsTerminal(lastOp'.msgs[k]) /\ lastOp'.msgs[k].id \in DOMAIN pendingRequests)
                  => lastOp'.msgs[k].id \notin DOMAIN pendingRequests']_vars

\* C6: the resolve and reject handles stored for a request are invoked at
\* most once in total.
C6_SettledAtMostOnce ==
    \A p \in 1..Len(promises) :
        promises[p].resolveCalls + promises[p].rejectCalls <= 1

IsChunk(m) == m.type = LLM_CHUNK
ChunkData(seen) ==
    LET cs == SelectSeq(seen, IsChunk) IN [k \in 1..Len(cs) |-> cs[k].data]

\* C7: onChunk of a generate call has been invoked once per llm:chunk frame
\* parsed for its id, with the contents in arrival order; the promise is
\* resolved at most once, and only by an llm:done frame.
C7_ChunksReachCallback ==
    \A p \in 1..Len(promises) :
        promises[p].kind = "generate" =>
            /\ onChunkCalls[p] = ChunkData(promises[p].seen)
            /\ promises[p].resolveCalls <= 1
            /\ promises[p].state = "resolved" =>
                   \E k \in 1..Len(promises[p].seen) : promises[p].seen[k].type = LLM_DONE

\* C8: once a pong frame carrying the id of a ping() has been fed to
\* processInput, the promise of that ping() is resolved.
C8_PongResolvesPing ==
    \A p \in 1..Len(promises) :
        (/\ promises[p].kind = "ping"
         /\ \E k \in 1..Len(promises[p].seen) : promises[p].seen[k].type = PONG)
            => promises[p].state = "resolved"


\* ========================================================= the RPC host
WEBLLM_MODEL == "Llama-3.2-1B-Instruct-q4f16_1-MLC"
WLLAMA_MODEL == "smollm2-360m-instruct-q8_0"
isWebLLMModel(m) == m = WEBLLM_MODEL
isWllamaModel(m) == m = WLLAMA_MODEL

\* Errors: new Error(message) and the DOMException named AbortError that an
\* aborted signal gives.  A message is a sequence of symbols.
Error(message) == [name |-> "Error", message |-> message]
AbortError == [name |-> "AbortError", message |-> <<"Aborted">>]
NO_BACKEND ==
    <<"No LLM backend available. Please download a local model or configure an API key in Settings.">>
ApiError(status) == <<"API error: ", status>>
NetworkError == <<"Failed to fetch">>
EngineError == <<"engine failure">>

\* The content of the k-th chunk a backend streams.
ChunkText(k) == IF k % 2 = 1 THEN <<"h">> ELSE <<"l">>

\* A handleLLMRequest call: the id of its request frame; where its
\* router.generate call is suspended (pc); whether its AbortController has
\* been aborted and how many frames the host had written when it was
\* (cancelAt); whether generateWithWllama has called abortSignal() (stopped);
\* the index of the cloud provider being tried; the content chunks streamed
\* so far; the contents the router has passed to onChunk, in call order
\* (emitted); the backends generate has turned to, in order (attempts); the
\* cloud providers whose attempt threw, each with its error (failures); where
\* how many backends it had turned to when it was aborted (cancelTried); how generate ended (outcome) and the error it
\* threw, if any; the fullContent variable of the backend call under way and
\* the content of the result generate returned.
NewReq(id, pc) ==
    [id |-> id, pc |-> pc, aborted |-> FALSE, cancelAt |-> -1,
     cancelTried |-> 0, stopped |-> FALSE, prov |-> 0, chunks |-> 0, emitted |-> <<>>,
     attempts |-> IF pc = "webllmCreate" THEN <<"webllm">>
                  ELSE IF pc = "wllamaRun" THEN <<"wllama">> ELSE <<>>,
     failures |-> <<>>, outcome |-> "", error |-> Error(<<>>),
     fullContent |-> <<>>, result |-> <<>>]

\* LLMRouter.generate up to its first await: a loaded WebLLM model first,
\* then a loaded Wllama model, else the read of activeLocalModel.
GenerateEntry ==
    IF webllmEngine /= null /\ currentBackend = "webllm" THEN "webllmCreate"
    ELSE IF wllamaInstance /= null /\ currentBackend = "wllama" THEN "wllamaRun"
    ELSE "getConfig"

\* A callback that writes its frame ahead of the frames already written.
HostOnChunkFirst(out, r, id, content) ==
    <<[frame |-> encodeMessage(LLM_CHUNK, id, content), req |-> r]>> \o out

\* The onChunk callback handleLLMRequest passes to the router.
HostOnChunk(out, r, id, content) ==
    Append(out, [frame |-> encodeMessage(LLM_CHUNK, id, content), req |-> r])

\* handleLLMRequest after router.generate returned.
HostOnReturn(out, r, id) ==
    Append(out, [frame |-> encodeMessage(LLM_DONE, id, <<>>), req |-> r])

\* A catch block that answers no error at all.
HostOnThrowSilent(out, r, id, error) == out

\* The catch block of handleLLMRequest.
HostOnThrow(out, r, id, error) ==
    IF error.name = "AbortError" THEN out
    ELSE Append(out, [frame |-> encodeMessage(LLM_ERROR, id, error.message), req |-> r])

\* The finally block of handleLLMRequest.
HostFinally(active, id) == MapDelete(active, id)

\* handleLLMRequest up to the first await of router.generate.
handleLLMRequest(h, message) ==
    [h EXCEPT !.reqs = Append(@, NewReq(message.id, GenerateEntry)),
              !.active = MapSet(@, message.id, Len(h.reqs) + 1)]

\* A handleLLMCancel that aborts every request in flight.
handleLLMCancelAll(h, message) ==
    [h EXCEPT !.reqs = [c \in 1..Len(h.reqs) |->
                           IF \E i \in DOMAIN h.active : h.active[i] = c
                           THEN [h.reqs[c] EXCEPT !.aborted = TRUE,
                                                  !.cancelAt = Len(h.out),
                                                  !.cancelTried = Len(h.reqs[c].attempts)]
                           ELSE h.reqs[c]],
              !.active = EmptyMap]

\* handleLLMCancel.
handleLLMCancel(h, message) ==
    IF message.id \in DOMAIN h.active THEN
        LET c == h.active[message.id] IN
        [h EXCEPT !.reqs[c].aborted = TRUE,
                  !.reqs[c].cancelAt = IF h.reqs[c].aborted THEN @ ELSE Len(h.out),
                  !.reqs[c].cancelTried =
                      IF h.reqs[c].aborted THEN @ ELSE Len(h.reqs[c].attempts),
                  !.active = MapDelete(@, message.id)]
    ELSE h

\* handlePing.
handlePing(h, message) ==
    [h EXCEPT !.out = Append(@, [frame |-> encodeMessage(PONG, message.id, <<>>),
                                 req |-> 0])]

\* handleMessage, as far as it runs before processOutput goes on.
handleMessage(h, message) ==
    IF message.type = LLM_REQUEST THEN handleLLMRequest(h, message)
    ELSE IF message.type = LLM_CANCEL THEN handleLLMCancel(h, message)
    ELSE IF message.type = PING THEN handlePing(h, message)
    ELSE h

\* The for loop of processOutput.
RECURSIVE HandleMessages(_, _)
HandleMessages(h, messages) ==
    IF messages = <<>> THEN h
    ELSE HandleMessages(handleMessage(h, Head(messages)), Tail(messages))

\* What the VM console hands the host in one processOutput call.
GuestData ==
    {encodeMessage(t, i, <<>>) : t \in {LLM_REQUEST, LLM_CANCEL}, i \in 1..MaxId}
        \cup {encodeMessage(PING, 1, <<>>)}
        \cup {encodeMessage(LLM_REQUEST, 1, <<>>) \o encodeMessage(LLM_CANCEL, 1, <<>>)}


IsRequest(m) == m.type = LLM_REQUEST
IsPing(m) == m.type = PING

\* LLMRPCHost.processOutput(data).
ProcessOutput(data) ==
    /\ LET r == parse(buffer, pendingRequests, promises, 0, data)
           h == HandleMessages([active |-> activeRequests, reqs |-> reqs, out |-> hostOut],
                               r.messages)
       IN /\ Len(reqs) + Len(SelectSeq(r.messages, IsRequest)) <= MaxReqs
          /\ \A k \in 1..Len(r.messages) :
                 IsRequest(r.messages[k]) => r.messages[k].id <= Len(reqs) + 1
          /\ Len(SelectSeq(r.messages, IsPing)) > 0 =>
                 /\ reqs /= <<>>
                 /\ \A c \in 1..Len(reqs) : reqs[c].pc = "done"
                 /\ Cardinality({k \in 1..Len(hostOut) : hostOut[k].req = 0}) < MaxPings
          /\ buffer' = r.buffer
          /\ pendingRequests' = r.pending
          /\ promises' = r.promises
          /\ activeRequests' = h.active
          /\ reqs' = h.reqs
          /\ hostOut' = h.out
    /\ UNCHANGED <<nextId, clientVars, streamVars, routerVars, otherVars>>

\* The content chunks streamed so far, over all calls.
RECURSIVE ChunksSoFar(_)
ChunksSoFar(rs) == IF rs = <<>> THEN 0 ELSE Head(rs).chunks + ChunksSoFar(Tail(rs))

hostRest == <<parserVars, streamVars, clientVars, otherVars>>

\* router.generate of call r returns { content }, after its last onChunk
\* call (content '', done true): the done frame is written and the
\* cancellation handle freed.
Returns(r, content) ==
    /\ hostOut' = HostOnReturn(HostOnChunk(hostOut, r, reqs[r].id, <<>>), r, reqs[r].id)
    /\ reqs' = [reqs EXCEPT ![r].pc = "done", ![r].outcome = "returned",
                            ![r].emitted = Append(@, <<>>),
                            ![r].result = content]
    /\ activeRequests' = HostFinally(activeRequests, reqs[r].id)

\* router.generate of call r, which is in state q, throws error.
Throws(r, q, error) ==
    /\ hostOut' = HostOnThrow(hostOut, r, q.id, error)
    /\ reqs' = [reqs EXCEPT ![r] =
                   [q EXCEPT !.pc = "done",
                             !.outcome = IF error.name = "AbortError" THEN "aborted"
                                         ELSE "threw",
                             !.error = error]]
    /\ activeRequests' = HostFinally(activeRequests, q.id)

\* An error that is the last failure of the provider loop.
LastFailure(failures) ==
    IF failures = <<>> THEN Error(NO_BACKEND) ELSE failures[Len(failures)].error

\* The error generate throws past the provider loop.
ExhaustedError(failures) == Error(NO_BACKEND)

\* A provider loop that gives up at the first provider that fails.
NextProviderGiveUp(r, i, failed) ==
    LET q == [reqs[r] EXCEPT !.failures = @ \o failed] IN
    IF i < Len(providers) /\ failed = <<>>
    THEN /\ reqs' = [reqs EXCEPT ![r] = [q EXCEPT !.pc = "cloudFetch", !.prov = i + 1,
                                                   !.attempts = Append(@, providers[i + 1])]]
         /\ UNCHANGED <<activeRequests, hostOut>>
    ELSE Throws(r, q, ExhaustedError(q.failures))

\* The cloud loop of generate moves on from provider i, whose attempt threw
\* the errors in failed (none when the loop starts): to the next provider's
\* generateWithCloud, or past the loop to the 'No LLM backend available'
\* error.
NextProvider(r, i, failed) ==
    LET q == [reqs[r] EXCEPT !.failures = @ \o failed] IN
    IF i < Len(providers)
    THEN /\ reqs' = [reqs EXCEPT ![r] = [q EXCEPT !.pc = "cloudFetch", !.prov = i + 1,
                                                   !.attempts = Append(@, providers[i + 1])]]
         /\ UNCHANGED <<activeRequests, hostOut>>
    ELSE Throws(r, q, ExhaustedError(q.failures))

\* What the catch of the provider loop is handed by provider prov of call r.
Failed(r, message) ==
    <<[provider |-> providers[reqs[r].prov],
       error |-> IF reqs[r].aborted THEN AbortError ELSE Error(message)]>>

\* storage.getConfig('activeLocalModel') has answered.
GetConfigReturns(r) ==
    /\ reqs[r].pc = "getConfig"
    /\ IF activeLocalModel /= null /\ isWebLLMModel(activeLocalModel) /\ webgpuAvailable
       THEN /\ reqs' = [reqs EXCEPT ![r].pc = "loadWebLLM",
                                    ![r].attempts = Append(@, "webllm")]
            /\ UNCHANGED <<activeRequests, hostOut>>
       ELSE IF activeLocalModel /= null /\ isWllamaModel(activeLocalModel) /\ wasmAvailable
       THEN /\ reqs' = [reqs EXCEPT ![r].pc = "loadWllamaImport",
                                    ![r].attempts = Append(@, "wllama")]
            /\ UNCHANGED <<activeRequests, hostOut>>
       ELSE NextProvider(r, 0, <<>>)
    /\ UNCHANGED <<routerVars, hostRest>>

\* The Wllama object the loadWllamaModel of generate call r, or of direct
\* call c, constructs.
ReqObj(r) == <<"Wllama#r1", "Wllama#r2", "Wllama#r3", "Wllama#r4">>[r]
CallObj(c) == <<"Wllama#c1", "Wllama#c2", "Wllama#c3", "Wllama#c4">>[c]

\* loadWebLLMModel(modelId) from the resolution of CreateMLCEngine on.
WebLLMCreated(modelId) ==
    /\ webllmEngine' = modelId
    /\ currentModel' = modelId
    /\ currentBackend' = "webllm"
    /\ UNCHANGED <<wllamaInstance, providers, activeLocalModel, webgpuAvailable,
                   wasmAvailable>>

\* loadWllamaModel: this.wllamaInstance = new Wllama(...).
WllamaConstructed(obj) ==
    /\ wllamaInstance' = obj
    /\ UNCHANGED <<webllmEngine, currentModel, currentBackend, providers, activeLocalModel,
                   webgpuAvailable, wasmAvailable>>

\* loadWllamaModel(modelId) from the resolution of loadModelFromUrl on.
WllamaModelLoaded(modelId) ==
    /\ currentModel' = modelId
    /\ currentBackend' = "wllama"
    /\ UNCHANGED <<webllmEngine, wllamaInstance, providers, activeLocalModel,
                   webgpuAvailable, wasmAvailable>>

\* loadWebLLMModel: the import and CreateMLCEngine have succeeded.
LoadWebLLMDone(r) ==
    /\ reqs[r].pc = "loadWebLLM"
    /\ WebLLMCreated(activeLocalModel)
    /\ reqs' = [reqs EXCEPT ![r].pc = "webllmCreate"]
    /\ UNCHANGED <<calls, activeRequests, hostOut, hostRest>>

\* loadWllamaModel: the imports have succeeded and the instance is made.
LoadWllamaImportDone(r) ==
    /\ reqs[r].pc = "loadWllamaImport"
    /\ WllamaConstructed(ReqObj(r))
    /\ reqs' = [reqs EXCEPT ![r].pc = "loadWllamaModel"]
    /\ UNCHANGED <<calls, activeRequests, hostOut, hostRest>>

\* loadWllamaModel: loadModelFromUrl has succeeded.
LoadWllamaModelDone(r) ==
    /\ reqs[r].pc = "loadWllamaModel"
    /\ WllamaModelLoaded(activeLocalModel)
    /\ reqs' = [reqs EXCEPT ![r].pc = "wllamaRun"]
    /\ UNCHANGED <<calls, activeRequests, hostOut, hostRest>>

\* A load step or a local engine call of call r fails with an ordinary
\* error, which generate lets through.
LocalFails(r) ==
    /\ reqs[r].pc \in {"loadWebLLM", "loadWllamaImport", "loadWllamaModel",
                       "webllmCreate", "webllmIter", "wllamaRun"}
    /\ Throws(r, reqs[r], Error(EngineError))
    /\ UNCHANGED <<routerVars, hostRest>>

\* generateWithWebLLM: chat.completions.create has answered.
WebLLMCreateDone(r) ==
    /\ reqs[r].pc = "webllmCreate"
    /\ reqs' = [reqs EXCEPT ![r].pc = "webllmIter"]
    /\ UNCHANGED <<activeRequests, hostOut, routerVars, hostRest>>

\* generateWithWebLLM: the stream yields a chunk; the signal is checked
\* first.
WebLLMChunk(r) ==
    /\ reqs[r].pc = "webllmIter"
    /\ IF reqs[r].aborted
       THEN Throws(r, reqs[r], AbortError)
       ELSE /\ ChunksSoFar(reqs) < MaxChunks
            /\ hostOut' = HostOnChunk(hostOut, r, reqs[r].id, ChunkText(reqs[r].chunks + 1))
            /\ reqs' = [reqs EXCEPT ![r].chunks = @ + 1,
                                 ![r].emitted = Append(@, ChunkText(reqs[r].chunks + 1)),
                                 ![r].fullContent = @ \o ChunkText(reqs[r].chunks + 1)]
            /\ UNCHANGED activeRequests
    /\ UNCHANGED <<routerVars, hostRest>>

\* generateWithWebLLM: the stream ends.
WebLLMEnd(r) ==
    /\ reqs[r].pc = "webllmIter"
    /\ Returns(r, reqs[r].fullContent)
    /\ UNCHANGED <<routerVars, hostRest>>

\* generateWithWllama: onNewToken is called; an aborted signal makes it
\* call abortSignal() and return.
WllamaToken(r) ==
    /\ reqs[r].pc = "wllamaRun"
    /\ ~reqs[r].stopped
    /\ IF reqs[r].aborted
       THEN /\ reqs' = [reqs EXCEPT ![r].stopped = TRUE]
            /\ UNCHANGED hostOut
       ELSE /\ ChunksSoFar(reqs) < MaxChunks
            /\ hostOut' = HostOnChunk(hostOut, r, reqs[r].id, ChunkText(reqs[r].chunks + 1))
            /\ reqs' = [reqs EXCEPT ![r].chunks = @ + 1,
                                 ![r].emitted = Append(@, ChunkText(reqs[r].chunks + 1)),
                                 ![r].fullContent = @ \o ChunkText(reqs[r].chunks + 1)]
    /\ UNCHANGED <<activeRequests, routerVars, hostRest>>

\* generateWithWllama: the text createCompletion answers with, less one
\* trailing stop token of each kind (tried in this order) and trimmed.
STOP_TOKENS == <<"<|im_end|>", "<|endoftext|>", "</s>">>
RECURSIVE StripStopTokens(_, _)
StripStopTokens(text, tokens) ==
    IF tokens = <<>> THEN text
    ELSE StripStopTokens(IF text /= <<>> /\ text[Len(text)] = Head(tokens)
                         THEN SubSeq(text, 1, Len(text) - 1) ELSE text,
                         Tail(tokens))
RECURSIVE Trim(_)
Trim(text) ==
    IF text = <<>> THEN text
    ELSE IF Head(text) = " " THEN Trim(Tail(text))
    ELSE IF text[Len(text)] = " " THEN Trim(SubSeq(text, 1, Len(text) - 1))
    ELSE text
WllamaResult(text) == Trim(StripStopTokens(text, STOP_TOKENS))

\* generateWithWllama: createCompletion has answered (at the end of the
\* text or after abortSignal()).
WllamaEnd(r) ==
    /\ reqs[r].pc = "wllamaRun"
    /\ Returns(r, WllamaResult(reqs[r].fullContent))
    /\ UNCHANGED <<routerVars, hostRest>>

\* What a provider's key lookup and fetch may come to.
FetchResults == {"ok", "status"}

\* generateWithCloud: the key lookup and the fetch of provider prov have
\* ended: with an AbortError if the signal is aborted, else with a good
\* response or with a bad status.
CloudFetchDone(r, res) ==
    /\ reqs[r].pc = "cloudFetch"
    /\ IF ~reqs[r].aborted /\ res = "ok"
       THEN /\ reqs' = [reqs EXCEPT ![r].pc = "cloudStream", ![r].fullContent = <<>>]
            /\ UNCHANGED <<activeRequests, hostOut>>
       ELSE NextProvider(r, reqs[r].prov,
                         Failed(r, ApiError("500")))
    /\ UNCHANGED <<routerVars, hostRest>>

\* streamOpenAIResponse / streamAnthropicResponse: a read yields a line
\* with a content delta.
CloudChunk(r) ==
    /\ reqs[r].pc = "cloudStream"
    /\ ~reqs[r].aborted
    /\ ChunksSoFar(reqs) < MaxChunks
    /\ hostOut' = HostOnChunk(hostOut, r, reqs[r].id, ChunkText(reqs[r].chunks + 1))
    /\ reqs' = [reqs EXCEPT ![r].chunks = @ + 1,
                                 ![r].emitted = Append(@, ChunkText(reqs[r].chunks + 1)),
                                 ![r].fullContent = @ \o ChunkText(reqs[r].chunks + 1)]
    /\ UNCHANGED <<activeRequests, routerVars, hostRest>>

\* The response stream ends.
CloudStreamEnd(r) ==
    /\ reqs[r].pc = "cloudStream"
    /\ ~reqs[r].aborted
    /\ Returns(r, reqs[r].fullContent)
    /\ UNCHANGED <<routerVars, hostRest>>

\* A read rejects (the signal was aborted, or the network failed); the
\* catch of the cloud loop takes the error.
CloudStreamFails(r) ==
    /\ reqs[r].pc = "cloudStream"
    /\ NextProvider(r, reqs[r].prov, Failed(r, NetworkError))
    /\ UNCHANGED <<routerVars, hostRest>>

\* ------------------------------------------- direct calls on the router
\* A call of a load or unload method: the method, its modelId argument, where
\* it is suspended, how it ended, the message of the error it threw before
\* its first await, and the Wllama object it has constructed.
NewCall(op, modelId, pc) ==
    [op |-> op, modelId |-> modelId, pc |-> pc, outcome |-> "", error |-> <<>>,
     created |-> null]

EndCall(call, outcome) == [call EXCEPT !.pc = "done", !.outcome = outcome]

\* The call throws new Error(message).
ThrowCall(call, message) == [EndCall(call, "threw") EXCEPT !.error = message]

WEBGPU_NOT_AVAILABLE == <<"WebGPU not available">>
WEBASSEMBLY_NOT_AVAILABLE == <<"WebAssembly not available">>
UnknownModel(modelId) == <<"Unknown model: ", modelId>>

\* The models a caller may name.
ModelIds == {WEBLLM_MODEL, WLLAMA_MODEL}

\* loadWebLLMModel(modelId) up to its first await.
LoadWebLLMModel(modelId) ==
    /\ calls' = Append(calls,
                       IF ~webgpuAvailable
                       THEN ThrowCall(NewCall("loadWebLLMModel", modelId, ""),
                                      WEBGPU_NOT_AVAILABLE)
                       ELSE NewCall("loadWebLLMModel", modelId, "loadWebLLM"))
    /\ UNCHANGED <<webllmEngine, wllamaInstance, currentModel, currentBackend, providers,
                   activeLocalModel, webgpuAvailable, wasmAvailable, hostVars, hostRest>>

\* A loadWllamaModel that goes to its imports without a check.
LoadWllamaModelUnchecked(modelId) ==
    /\ calls' = Append(calls, NewCall("loadWllamaModel", modelId, "loadWllamaImport"))
    /\ UNCHANGED <<webllmEngine, wllamaInstance, currentModel, currentBackend, providers,
                   activeLocalModel, webgpuAvailable, wasmAvailable, hostVars, hostRest>>

\* loadWllamaModel(modelId) up to its first await.
LoadWllamaModel(modelId) ==
    /\ calls' = Append(calls,
                       IF ~wasmAvailable
                       THEN ThrowCall(NewCall("loadWllamaModel", modelId, ""),
                                      WEBASSEMBLY_NOT_AVAILABLE)
                       ELSE IF ~isWllamaModel(modelId)
                       THEN ThrowCall(NewCall("loadWllamaModel", modelId, ""),
                                      UnknownModel(modelId))
                       ELSE NewCall("loadWllamaModel", modelId, "loadWllamaImport"))
    /\ UNCHANGED <<webllmEngine, wllamaInstance, currentModel, currentBackend, providers,
                   activeLocalModel, webgpuAvailable, wasmAvailable, hostVars, hostRest>>

\* Direct call c: the import and CreateMLCEngine have succeeded.
CallLoadWebLLMDone(c) ==
    /\ calls[c].pc = "loadWebLLM"
    /\ WebLLMCreated(calls[c].modelId)
    /\ calls' = [calls EXCEPT ![c] = EndCall(@, "returned")]
    /\ UNCHANGED <<hostVars, hostRest>>

\* Direct call c: the imports have succeeded and the instance is made.
CallLoadWllamaImportDone(c) ==
    /\ calls[c].pc = "loadWllamaImport"
    /\ WllamaConstructed(CallObj(c))
    /\ calls' = [calls EXCEPT ![c].pc = "loadWllamaModel", ![c].created = CallObj(c)]
    /\ UNCHANGED <<hostVars, hostRest>>

\* Direct call c: loadModelFromUrl has succeeded.
CallLoadWllamaModelDone(c) ==
    /\ calls[c].pc = "loadWllamaModel"
    /\ WllamaModelLoaded(calls[c].modelId)
    /\ calls' = [calls EXCEPT ![c] = EndCall(@, "returned")]
    /\ UNCHANGED <<hostVars, hostRest>>

\* Direct call c: an import, CreateMLCEngine or loadModelFromUrl rejects.
CallLoadFails(c) ==
    /\ calls[c].pc \in {"loadWebLLM", "loadWllamaImport", "loadWllamaModel"}
    /\ calls' = [calls EXCEPT ![c] = EndCall(@, "threw")]
    /\ UNCHANGED <<webllmEngine, wllamaInstance, currentModel, currentBackend, providers,
                   activeLocalModel, webgpuAvailable, wasmAvailable, hostVars, hostRest>>

\* The body of unloadWebLLMModel (it has no await).
WebLLMUnloaded ==
    /\ webllmEngine' = null
    /\ IF currentBackend = "webllm"
       THEN currentModel' = null /\ currentBackend' = null
       ELSE UNCHANGED <<currentModel, currentBackend>>

\* unloadWllamaModel from the settling of exit() on, or all of it when there
\* is no instance.
WllamaUnloaded ==
    /\ wllamaInstance' = null
    /\ IF currentBackend = "wllama"
       THEN currentModel' = null /\ currentBackend' = null
       ELSE UNCHANGED <<currentModel, currentBackend>>

\* unloadWebLLMModel().
UnloadWebLLMModel ==
    /\ WebLLMUnloaded
    /\ calls' = Append(calls, EndCall(NewCall("unloadWebLLMModel", null, ""), "returned"))
    /\ UNCHANGED <<wllamaInstance, providers, activeLocalModel, webgpuAvailable,
                   wasmAvailable, hostVars, hostRest>>

\* unloadWllamaModel() up to the await of exit(), or to its end when there
\* is no instance.
UnloadWllamaModel ==
    /\ IF wllamaInstance /= null
       THEN /\ calls' = Append(calls, NewCall("unloadWllamaModel", null, "exit"))
            /\ UNCHANGED <<wllamaInstance, currentModel, currentBackend>>
       ELSE /\ calls' = Append(calls,
                               EndCall(NewCall("unloadWllamaModel", null, ""), "returned"))
            /\ WllamaUnloaded
    /\ UNCHANGED <<webllmEngine, providers, activeLocalModel, webgpuAvailable,
                   wasmAvailable, hostVars, hostRest>>

\* unloadModel() up to its first await: the body of unloadWebLLMModel.
UnloadModel ==
    /\ WebLLMUnloaded
    /\ calls' = Append(calls, NewCall("unloadModel", null, "unloadWllama"))
    /\ UNCHANGED <<wllamaInstance, providers, activeLocalModel, webgpuAvailable,
                   wasmAvailable, hostVars, hostRest>>

\* unloadModel() goes on to unloadWllamaModel().
UnloadModelContinues(c) ==
    /\ calls[c].pc = "unloadWllama"
    /\ IF wllamaInstance /= null
       THEN /\ calls' = [calls EXCEPT ![c].pc = "exit"]
            /\ UNCHANGED <<wllamaInstance, currentModel, currentBackend>>
       ELSE /\ calls' = [calls EXCEPT ![c] = EndCall(@, "returned")]
            /\ WllamaUnloaded
    /\ UNCHANGED <<webllmEngine, providers, activeLocalModel, webgpuAvailable,
                   wasmAvailable, hostVars, hostRest>>

\* exit() has settled (its rejection is ignored).
ExitDone(c) ==
    /\ calls[c].pc = "exit"
    /\ WllamaUnloaded
    /\ calls' = [calls EXCEPT ![c] = EndCall(@, "returned")]
    /\ UNCHANGED <<webllmEngine, providers, activeLocalModel, webgpuAvailable,
                   wasmAvailable, hostVars, hostRest>>

\* What init() may have listed: the providers with a key, in key order.
ProviderLists == {<<>>, <<"openai">>, <<"anthropic", "openai">>}

\* A router after init(): a model loaded, or one named in the configuration,
\* or none and some providers with keys.
RouterConfigs ==
    {[engine |-> WEBLLM_MODEL, instance |-> null, backend |-> "webllm",
      model |-> WEBLLM_MODEL, active |-> WEBLLM_MODEL, gpu |-> TRUE, wasm |-> TRUE,
      providers |-> <<>>],
     [engine |-> null, instance |-> "Wllama", backend |-> "wllama",
      model |-> WLLAMA_MODEL, active |-> WLLAMA_MODEL, gpu |-> FALSE, wasm |-> TRUE,
      providers |-> <<>>],
     [engine |-> null, instance |-> null, backend |-> null,
      model |-> null, active |-> WEBLLM_MODEL, gpu |-> TRUE, wasm |-> TRUE,
      providers |-> <<>>],
     [engine |-> null, instance |-> null, backend |-> null,
      model |-> null, active |-> WLLAMA_MODEL, gpu |-> FALSE, wasm |-> TRUE,
      providers |-> <<>>]}
    \cup {[engine |-> null, instance |-> null, backend |-> null,
           model |-> null, active |-> null, gpu |-> FALSE, wasm |-> TRUE,
           providers |-> ps] : ps \in ProviderLists}

HostInit ==
    /\ ParserInit
    /\ ClientIdle
    /\ StreamIdle
    /\ HostIdle
    /\ OtherIdle
    /\ \E c \in RouterConfigs :
           /\ webllmEngine = c.engine
           /\ wllamaInstance = c.instance
           /\ currentBackend = c.backend
           /\ currentModel = c.model
           /\ activeLocalModel = c.active
           /\ webgpuAvailable = c.gpu
           /\ wasmAvailable = c.wasm
           /\ providers = c.providers
           /\ calls = <<>>

HostNext ==
    \/ \E data \in GuestData : ProcessOutput(data)
    \/ \E r \in 1..Len(reqs) : GetConfigReturns(r)
    \/ \E r \in 1..Len(reqs) : LoadWebLLMDone(r)
    \/ \E r \in 1..Len(reqs) : LoadWllamaImportDone(r)
    \/ \E r \in 1..Len(reqs) : LoadWllamaModelDone(r)
    \/ \E r \in 1..Len(reqs) : LocalFails(r)
    \/ \E r \in 1..Len(reqs) : WebLLMCreateDone(r)
    \/ \E r \in 1..Len(reqs) : WebLLMChunk(r)
    \/ \E r \in 1..Len(reqs) : WebLLMEnd(r)
    \/ \E r \in 1..Len(reqs) : WllamaToken(r)
    \/ \E r \in 1..Len(reqs) : WllamaEnd(r)
    \/ \E r \in 1..Len(reqs) : \E res \in FetchResults : CloudFetchDone(r, res)
    \/ \E r \in 1..Len(reqs) : CloudChunk(r)
    \/ \E r \in 1..Len(reqs) : CloudStreamEnd(r)
    \/ \E r \in 1..Len(reqs) : CloudStreamFails(r)

SpecHost == HostInit /\ [][HostNext]_vars

\* The router under generate calls (made by the host for request frames) and
\* direct load and unload calls, MaxCalls of them in all.
RequestData == {encodeMessage(LLM_REQUEST, i, <<>>) : i \in 1..MaxId}

RouterSteps ==
    \/ \E r \in 1..Len(reqs) : GetConfigReturns(r)
    \/ \E r \in 1..Len(reqs) : LoadWebLLMDone(r)
    \/ \E r \in 1..Len(reqs) : LoadWllamaImportDone(r)
    \/ \E r \in 1..Len(reqs) : LoadWllamaModelDone(r)
    \/ \E r \in 1..Len(reqs) : LocalFails(r)
    \/ \E r \in 1..Len(reqs) : WebLLMCreateDone(r)
    \/ \E r \in 1..Len(reqs) : WebLLMChunk(r)
    \/ \E r \in 1..Len(reqs) : WebLLMEnd(r)
    \/ \E r \in 1..Len(reqs) : WllamaToken(r)
    \/ \E r \in 1..Len(reqs) : WllamaEnd(r)
    \/ \E r \in 1..Len(reqs) : \E res \in FetchResults : CloudFetchDone(r, res)
    \/ \E r \in 1..Len(reqs) : CloudChunk(r)
    \/ \E r \in 1..Len(reqs) : CloudStreamEnd(r)
    \/ \E r \in 1..Len(reqs) : CloudStreamFails(r)

CallBudget == Len(reqs) + Len(calls) < MaxCalls

RouterNext ==
    \/ \E data \in RequestData : CallBudget /\ ProcessOutput(data)
    \/ \E m \in ModelIds : CallBudget /\ LoadWebLLMModel(m)
    \/ \E m \in ModelIds : CallBudget /\ LoadWllamaModel(m)
    \/ CallBudget /\ UnloadWebLLMModel
    \/ CallBudget /\ UnloadWllamaModel
    \/ CallBudget /\ UnloadModel
    \/ \E c \in 1..Len(calls) : CallLoadWebLLMDone(c)
    \/ \E c \in 1..Len(calls) : CallLoadWllamaImportDone(c)
    \/ \E c \in 1..Len(calls) : CallLoadWllamaModelDone(c)
    \/ \E c \in 1..Len(calls) : CallLoadFails(c)
    \/ \E c \in 1..Len(calls) : UnloadModelContinues(c)
    \/ \E c \in 1..Len(calls) : ExitDone(c)
    \/ RouterSteps

\* A router after the constructor and init(): no model loaded yet.
RouterInit ==
    /\ HostInit
    /\ webllmEngine = null
    /\ wllamaInstance = null

SpecRouter == RouterInit /\ [][RouterNext]_vars


\* ----------------------------------------------------- claims on the host
FrameMsg(f) == JSONparse(Substring(f, Len(OSC_START), Len(f) - Len(OSC_END))).msg

\* The positions in hostOut of the terminal frames call r has written.
TerminalsOf(r) ==
    {k \in 1..Len(hostOut) : hostOut[k].req = r /\ IsTerminal(FrameMsg(hostOut[k].frame))}

\* C9: a handleLLMRequest call writes at most one terminal frame; one that
\* was not cancelled and has ended has written exactly one, llm:done if
\* generate returned and llm:error if it threw, carrying its id; and once a
\* call has ended its cancellation handle is not in activeRequests.
C9_OneTerminalFrame ==
    \A r \in 1..Len(reqs) :
        /\ Cardinality(TerminalsOf(r)) <= 1
        /\ (reqs[r].pc = "done" /\ ~reqs[r].aborted) =>
               /\ Cardinality(TerminalsOf(r)) = 1
               /\ \A k \in TerminalsOf(r) :
                      /\ FrameMsg(hostOut[k].frame).id = reqs[r].id
                      /\ FrameMsg(hostOut[k].frame).type =
                             (IF reqs[r].outcome = "returned" THEN LLM_DONE ELSE LLM_ERROR)
        /\ reqs[r].pc = "done" =>
               ~(reqs[r].id \in DOMAIN activeRequests /\ activeRequests[reqs[r].id] = r)

C9_Witness ==
    \E r \in 1..Len(reqs) :
        /\ reqs[r].pc = "done" /\ ~reqs[r].aborted /\ reqs[r].outcome = "returned"
        /\ reqs[r].chunks >= 1
        /\ Cardinality(TerminalsOf(r)) = 1
        /\ reqs[r].id \notin DOMAIN activeRequests

\* C10: once the host has processed an llm:cancel frame for a request in
\* flight, it writes no further frame for that request.
C10_SilentAfterCancel ==
    \A r \in 1..Len(reqs) :
        reqs[r].aborted =>
            \A k \in 1..Len(hostOut) : hostOut[k].req = r => k <= reqs[r].cancelAt

\* The same for the requests served by the backend whose generate ends in
\* the given way.
SilentAfterCancelWhen(outcome) ==
    \A r \in 1..Len(reqs) :
        (reqs[r].aborted /\ reqs[r].outcome = outcome) =>
            \A k \in 1..Len(hostOut) : hostOut[k].req = r => k <= reqs[r].cancelAt

SilentAfterCancelAborted == SilentAfterCancelWhen("aborted")


\* The contents of the llm:chunk frames call r has written, in channel order.
RECURSIVE ChunkFramesOf(_, _)
ChunkFramesOf(out, r) ==
    IF out = <<>> THEN <<>>
    ELSE LET m == FrameMsg(Head(out).frame)
         IN (IF Head(out).req = r /\ IsChunk(m) THEN <<m.data>> ELSE <<>>)
                \o ChunkFramesOf(Tail(out), r)

\* C11: for every request, the llm:chunk frames on the channel are the
\* onChunk invocations of the router for it, one frame per invocation, in
\* invocation order and carrying the request's id, whatever frames of other
\* requests lie between them.
C11_ChunksInOrder ==
    \A r \in 1..Len(reqs) :
        /\ ChunkFramesOf(hostOut, r) = reqs[r].emitted
        /\ \A k \in 1..Len(hostOut) :
               hostOut[k].req = r => FrameMsg(hostOut[k].frame).id = reqs[r].id

C11_Witness ==
    \E k1, k2, k3 \in 1..Len(hostOut) :
        /\ k1 < k2 /\ k2 < k3
        /\ hostOut[k1].req = hostOut[k3].req
        /\ hostOut[k2].req /= hostOut[k1].req /\ hostOut[k2].req /= 0
        /\ reqs[hostOut[k1].req].id /= reqs[hostOut[k2].req].id
        /\ \A k \in {k1, k2, k3} : IsChunk(FrameMsg(hostOut[k].frame))
        /\ FrameMsg(hostOut[k1].frame).data /= FrameMsg(hostOut[k3].frame).data


\* ---------------------------------------------------- claims on the router
IsProvider(b) == \E k \in 1..Len(providers) : providers[k] = b
CloudAttempts(q) == SelectSeq(q.attempts, IsProvider)
OnlyCloud(q) == Len(CloudAttempts(q)) = Len(q.attempts)

\* The positions in hostOut of the llm:error frames call r has written.
ErrorFramesOf(r) ==
    {k \in 1..Len(hostOut) :
        hostOut[k].req = r /\ FrameMsg(hostOut[k].frame).type = LLM_ERROR}

\* C13: in the cloud fallback of generate the providers are attempted in the
\* order of the providers list, each at most once; a provider that failed
\* does not make generate fail: the call goes on to the next provider,
\* returns the result of the first one that succeeds, and fails only when
\* every provider has been attempted.
C13_FallbackContinues ==
    \A r \in 1..Len(reqs) :
        LET q == reqs[r]
            cloud == CloudAttempts(q)
        IN /\ Len(cloud) <= Len(providers)
           /\ \A k \in 1..Len(cloud) : cloud[k] = providers[k]
           /\ Len(q.failures) <= Len(cloud)
           /\ \A k \in 1..Len(q.failures) : q.failures[k].provider = cloud[k]
           /\ (q.pc = "done" /\ q.outcome = "returned" /\ cloud /= <<>>) =>
                  Len(q.failures) = Len(cloud) - 1
           /\ (q.pc = "done" /\ q.outcome /= "returned" /\ OnlyCloud(q)) =>
                  Len(cloud) = Len(providers)

C13_Witness ==
    \E r \in 1..Len(reqs) :
        /\ reqs[r].pc = "done" /\ reqs[r].outcome = "returned" /\ ~reqs[r].aborted
        /\ Len(reqs[r].failures) = 1
        /\ reqs[r].attempts = providers /\ Len(providers) = 2

\* C14: with openai the only provider and no local backend, a generate
\* whose openai call fails with HTTP 500 fails with that provider's error
\* and not with the 'No LLM backend available' error.
C14_SoleProviderError ==
    \A r \in 1..Len(reqs) :
        LET q == reqs[r] IN
        (/\ providers = <<"openai">>
         /\ q.pc = "done" /\ ~q.aborted
         /\ q.attempts = <<"openai">>
         /\ Len(q.failures) = 1
         /\ q.failures[1].error = Error(ApiError("500")))
            => /\ q.outcome = "threw"
               /\ q.error = Error(ApiError("500"))
               /\ q.error /= Error(NO_BACKEND)

C16_CancelStopsFallback ==
    \A r \in 1..Len(reqs) :
        LET q == reqs[r] IN
        (q.aborted /\ q.cancelTried >= 1 /\ IsProvider(q.attempts[q.cancelTried]))
            => /\ Len(q.attempts) = q.cancelTried
               /\ q.pc = "done" => q.outcome = "aborted"
               /\ ErrorFramesOf(r) = {}

\* C17: a call aborted while a backend was serving it never ends by
\* returning: it ends with the AbortError (or with the failure of the
\* engine itself).
C17_CancelEndsGeneration ==
    \A r \in 1..Len(reqs) :
        LET q == reqs[r] IN
        (q.aborted /\ q.cancelTried >= 1 /\ q.pc = "done")
            => \/ q.outcome = "aborted"
               \/ q.outcome = "threw" /\ q.error = Error(EngineError)


\* C12: a generate call made while a WebLLM engine is loaded is served by
\* WebLLM; else, while a Wllama model is the current one, by Wllama; else it
\* turns to the configuration and the providers, and to no backend before.
C12_BackendPriority ==
    [][\A r \in 1..Len(reqs') :
           r > Len(reqs) =>
               reqs'[r].attempts =
                   (IF webllmEngine /= null THEN <<"webllm">>
                    ELSE IF wllamaInstance /= null /\ currentBackend = "wllama"
                         THEN <<"wllama">>
                    ELSE <<>>)]_vars

\* The same with the loaded model read as the one of the current backend.
CurrentBackendFirst ==
    [][\A r \in 1..Len(reqs') :
           r > Len(reqs) =>
               reqs'[r].attempts =
                   (IF webllmEngine /= null /\ currentBackend = "webllm" THEN <<"webllm">>
                    ELSE IF wllamaInstance /= null /\ currentBackend = "wllama"
                         THEN <<"wllama">>
                    ELSE <<>>)]_vars

\* C18: webllmEngine and wllamaInstance are never both set.
C18_AtMostOneResident == webllmEngine = null \/ wllamaInstance = null

IsLoad(call) == call.op \in {"loadWebLLMModel", "loadWllamaModel"}

\* C19: the Wllama object constructed by a load that failed is not the
\* router's instance.
C19_FailedLoadNotRetained ==
    \A c \in 1..Len(calls) :
        (IsLoad(calls[c]) /\ calls[c].outcome = "threw" /\ calls[c].created /= null)
            => wllamaInstance /= calls[c].created

LoadPcs == {"loadWebLLM", "loadWllamaImport", "loadWllamaModel"}

\* C20: at most one load, direct or started by generate, is in progress.
C20_OneLoadAtATime ==
    Cardinality({c \in 1..Len(calls) : calls[c].pc \in LoadPcs})
        + Cardinality({r \in 1..Len(reqs) : reqs[r].pc \in LoadPcs}) <= 1

\* ================================================ OfflineStorage, init
\* A key of the config store is a string, held as a sequence of tokens:
\* `apikey:${provider}` is <<"apikey:", provider>>.
APIKEY == "apikey:"
ApiKeyName(provider) == <<APIKEY, provider>>
ACTIVE_LOCAL_MODEL == <<"activeLocalModel">>

\* String.prototype.startsWith('apikey:') and replace('apikey:', '').
StartsWithApiKey(k) == Len(k) > 0 /\ k[1] = APIKEY
ReplaceApiKey(k) ==
    LET hits == {i \in 1..Len(k) : k[i] = APIKEY} IN
    IF hits = {} THEN k
    ELSE LET i == CHOOSE x \in hits : \A y \in hits : x <= y
         IN SubSeq(k, 1, i - 1) \o SubSeq(k, i + 1, Len(k))

\* The keys callers use, in the ascending order in which getAllKeys lists
\* them.
ConfigKeys == <<ACTIVE_LOCAL_MODEL, ApiKeyName("anthropic"), ApiKeyName("openai")>>
ProviderArgs == {"openai", "anthropic"}

\* Values: undefined, a plain value, or what encrypt makes of an API key
\* under a password (salt and iv, which are random, are left out).
undefined == [kind |-> "undefined", v |-> null, with |-> null]
Plain(v) == [kind |-> "plain", v |-> v, with |-> null]
encrypt(plaintext, password) == [kind |-> "encrypted", v |-> plaintext, with |-> password]
ConfigValues == {Plain("v1"), Plain("v2")}
ApiKeys == {"sk-1"}
EncryptionKeys == {"k1", null}

\* decrypt: ok = FALSE stands for the error crypto.subtle.decrypt rejects
\* with (a wrong password, or a value encrypt did not make).
decrypt(encrypted, password) ==
    IF encrypted.kind = "encrypted" /\ encrypted.with = password
    THEN [ok |-> TRUE, plaintext |-> encrypted.v]
    ELSE [ok |-> FALSE, plaintext |-> null]

\* A delete that removes nothing.
StoreDeleteNothing(store, key) == store

\* IDBObjectStore.put, delete, get and getAllKeys on the config store; the
\* updatedAt field (Date.now()) of a record is left out: nothing reads it.
StorePut(store, record) == MapSet(store, record.key, record)
StoreDelete(store, key) == MapDelete(store, key)
StoreGet(store, key) == IF key \in DOMAIN store THEN store[key].value ELSE undefined
RECURSIVE SortedKeys(_, _)
SortedKeys(store, order) ==
    IF order = <<>> THEN <<>>
    ELSE (IF Head(order) \in DOMAIN store THEN <<Head(order)>> ELSE <<>>)
             \o SortedKeys(store, Tail(order))
StoreGetAllKeys(store) == SortedKeys(store, ConfigKeys)

\* The result of listApiKeyProviders on a store.
RECURSIVE FilterMap(_)
FilterMap(keys) ==
    IF keys = <<>> THEN <<>>
    ELSE (IF StartsWithApiKey(Head(keys)) THEN <<ReplaceApiKey(Head(keys))[1]>> ELSE <<>>)
             \o FilterMap(Tail(keys))
listApiKeyProviders(store) == FilterMap(StoreGetAllKeys(store))

\* A call and its result: threw is the message of the error thrown, or null.
Call(op, key, value, result, threw) ==
    [op |-> op, key |-> key, value |-> value, result |-> result, threw |-> threw]

storageRest == <<parserVars, streamVars, clientVars, hostVars, codecVars, adapterVars,
                 emuVars>>
routerFields == <<webllmEngine, wllamaInstance, currentModel, currentBackend,
                  activeLocalModel, calls>>

\* setEncryptionKey(key).
SetEncryptionKey(key) ==
    /\ encryptionKey' = key
    /\ lastCall' = Call("setEncryptionKey", <<>>, Plain(key), undefined, null)
    /\ UNCHANGED <<db, lastSet, initKeys, routerVars, storageRest>>

\* setConfig(key, value), also as setApiKey calls it.
SetConfigBody(key, value) ==
    /\ db' = StorePut(db, [key |-> key, value |-> value])
    /\ lastSet' = MapSet(lastSet, key, value)

\* deleteConfig(key), also as deleteApiKey calls it.
DeleteConfigBody(key) ==
    /\ db' = StoreDelete(db, key)
    /\ lastSet' = MapDelete(lastSet, key)

SetConfig(key, value) ==
    /\ SetConfigBody(key, value)
    /\ lastCall' = Call("setConfig", key, value, undefined, null)
    /\ UNCHANGED <<encryptionKey, initKeys, routerVars, storageRest>>

\* getConfig(key).
GetConfig(key) ==
    /\ lastCall' = Call("getConfig", key, undefined, StoreGet(db, key), null)
    /\ UNCHANGED <<db, encryptionKey, lastSet, initKeys, routerVars, storageRest>>

DeleteConfig(key) ==
    /\ DeleteConfigBody(key)
    /\ lastCall' = Call("deleteConfig", key, undefined, undefined, null)
    /\ UNCHANGED <<encryptionKey, initKeys, routerVars, storageRest>>

ENCRYPTION_KEY_NOT_SET == "Encryption key not set"

\* A setApiKey that writes before it looks at the encryption key.
SetApiKeyUnchecked(provider, apiKey) ==
    /\ SetConfigBody(ApiKeyName(provider), encrypt(apiKey, encryptionKey))
    /\ lastCall' = Call("setApiKey", ApiKeyName(provider), Plain(apiKey), undefined,
                        IF encryptionKey = null THEN ENCRYPTION_KEY_NOT_SET ELSE null)
    /\ UNCHANGED <<encryptionKey, initKeys, routerVars, storageRest>>

\* setApiKey(provider, apiKey); the awaited encrypt is taken with the put.
SetApiKey(provider, apiKey) ==
    /\ IF encryptionKey = null
       THEN /\ lastCall' = Call("setApiKey", ApiKeyName(provider), Plain(apiKey), undefined,
                                ENCRYPTION_KEY_NOT_SET)
            /\ UNCHANGED <<db, lastSet>>
       ELSE /\ SetConfigBody(ApiKeyName(provider), encrypt(apiKey, encryptionKey))
            /\ lastCall' = Call("setApiKey", ApiKeyName(provider), Plain(apiKey), undefined,
                                null)
    /\ UNCHANGED <<encryptionKey, initKeys, routerVars, storageRest>>

\* getApiKey(provider).
GetApiKey(provider) ==
    /\ LET encrypted == StoreGet(db, ApiKeyName(provider))
           d == decrypt(encrypted, encryptionKey)
       IN lastCall' =
              IF encryptionKey = null
              THEN Call("getApiKey", ApiKeyName(provider), undefined, undefined,
                        ENCRYPTION_KEY_NOT_SET)
              ELSE IF encrypted = undefined
              THEN Call("getApiKey", ApiKeyName(provider), undefined, Plain(null), null)
              ELSE IF d.ok
              THEN Call("getApiKey", ApiKeyName(provider), undefined, Plain(d.plaintext), null)
              ELSE Call("getApiKey", ApiKeyName(provider), undefined, undefined,
                        "OperationError")
    /\ UNCHANGED <<db, encryptionKey, lastSet, initKeys, routerVars, storageRest>>

\* deleteApiKey(provider).
DeleteApiKey(provider) ==
    /\ DeleteConfigBody(ApiKeyName(provider))
    /\ lastCall' = Call("deleteApiKey", ApiKeyName(provider), undefined, undefined, null)
    /\ UNCHANGED <<encryptionKey, initKeys, routerVars, storageRest>>

\* listApiKeyProviders().
ListApiKeyProviders ==
    /\ lastCall' = Call("listApiKeyProviders", <<>>, undefined, listApiKeyProviders(db), null)
    /\ UNCHANGED <<db, encryptionKey, lastSet, initKeys, routerVars, storageRest>>

\* LLMRouter.init(): gpu is what checkWebGPU finds, wasm what checkWllama
\* finds.
RouterInitCall(gpu, wasm) ==
    /\ webgpuAvailable' = gpu
    /\ wasmAvailable' = wasm
    /\ providers' = listApiKeyProviders(db)
    /\ initKeys' = [done |-> TRUE, keys |-> DOMAIN db]
    /\ lastCall' = Call("init", <<>>, undefined, undefined, null)
    /\ UNCHANGED <<db, encryptionKey, lastSet, routerFields, storageRest>>

\* PROVIDERS, in the order of Object.entries, and the model lists.
PROVIDERS == <<"openai", "anthropic", "openrouter">>
ProviderName(id) ==
    IF id = "openai" THEN "OpenAI" ELSE IF id = "anthropic" THEN "Anthropic" ELSE "OpenRouter"
ProviderModels(id) ==
    IF id = "openai" THEN <<"gpt-4o", "gpt-4o-mini", "gpt-4-turbo", "gpt-3.5-turbo">>
    ELSE IF id = "anthropic"
    THEN <<"claude-3-5-sonnet-20241022", "claude-3-5-haiku-20241022", "claude-3-opus-20240229">>
    ELSE <<>>
WEBLLM_MODELS ==
    <<"Llama-3.2-1B-Instruct-q4f16_1-MLC", "Llama-3.2-3B-Instruct-q4f16_1-MLC",
      "SmolLM2-1.7B-Instruct-q4f16_1-MLC", "SmolLM2-360M-Instruct-q4f32_1-MLC",
      "Qwen2.5-1.5B-Instruct-q4f16_1-MLC", "Phi-3.5-mini-instruct-q4f16_1-MLC",
      "TinyLlama-1.1B-Chat-v1.0-q4f32_1-MLC">>
WLLAMA_MODELS ==
    <<"smollm2-360m-instruct-q8_0", "smollm2-1.7b-instruct-q4_k_m",
      "qwen2.5-0.5b-instruct-q8_0", "tinyllama-1.1b-chat-v1.0-q4_k_m">>

\* Array.prototype.includes.
Includes(seq, x) == \E k \in 1..Len(seq) : seq[k] = x

\* A cloud descriptor that is available whether or not there is a key.
CloudBackendAlways(id) ==
    [type |-> "cloud", id |-> id, name |-> ProviderName(id), available |-> TRUE,
     reason |-> null, models |-> ProviderModels(id)]

\* The descriptor getBackends pushes for provider id.
CloudBackend(id) ==
    LET hasKey == Includes(providers, id) IN
    [type |-> "cloud", id |-> id, name |-> ProviderName(id), available |-> hasKey,
     reason |-> IF hasKey THEN null ELSE "API key not configured",
     models |-> ProviderModels(id)]

\* The list getBackends returns (performance and multiThreaded left out).
Backends ==
    <<[type |-> "webllm", id |-> null, name |-> "Local GPU (WebLLM)",
       available |-> webgpuAvailable,
       reason |-> IF webgpuAvailable THEN null ELSE "WebGPU not supported in this browser",
       models |-> IF webgpuAvailable THEN WEBLLM_MODELS ELSE <<>>],
      [type |-> "wllama", id |-> null, name |-> "Local CPU (Wllama)",
       available |-> wasmAvailable,
       reason |-> IF wasmAvailable THEN null ELSE "WebAssembly not supported",
       models |-> IF wasmAvailable THEN WLLAMA_MODELS ELSE <<>>]>>
        \o [k \in 1..Len(PROVIDERS) |-> CloudBackend(PROVIDERS[k])]

\* getBackends(); before init, this.providers is undefined and includes
\* throws a TypeError.
GetBackends ==
    /\ lastCall' = IF initKeys.done
                   THEN Call("getBackends", <<>>, undefined, Backends, null)
                   ELSE Call("getBackends", <<>>, undefined, <<>>, "TypeError")
    /\ UNCHANGED <<db, encryptionKey, lastSet, initKeys, routerVars, storageRest>>

\* The value of isAvailable() on an initialised router.
isAvailable == webgpuAvailable \/ wasmAvailable \/ Len(providers) > 0

\* isAvailable(); before init, this.providers is undefined.
IsAvailable ==
    /\ lastCall' = IF initKeys.done
                   THEN Call("isAvailable", <<>>, undefined, isAvailable, null)
                   ELSE Call("isAvailable", <<>>, undefined, FALSE, "TypeError")
    /\ UNCHANGED <<db, encryptionKey, lastSet, initKeys, routerVars, storageRest>>

StorageInit ==
    ParserInit /\ ClientIdle /\ StreamIdle /\ HostIdle /\ RouterIdle /\ OtherIdle

StorageNext ==
    \/ \E key \in EncryptionKeys : SetEncryptionKey(key)
    \/ \E k \in 1..Len(ConfigKeys) : \E value \in ConfigValues : SetConfig(ConfigKeys[k], value)
    \/ \E k \in 1..Len(ConfigKeys) : GetConfig(ConfigKeys[k])
    \/ \E k \in 1..Len(ConfigKeys) : DeleteConfig(ConfigKeys[k])
    \/ \E provider \in ProviderArgs : \E apiKey \in ApiKeys : SetApiKey(provider, apiKey)
    \/ \E provider \in ProviderArgs : GetApiKey(provider)
    \/ \E provider \in ProviderArgs : DeleteApiKey(provider)
    \/ ListApiKeyProviders
    \/ \E gpu \in BOOLEAN : \E wasm \in BOOLEAN : RouterInitCall(gpu, wasm)
    \/ GetBackends
    \/ IsAvailable

SpecStorage == StorageInit /\ [][StorageNext]_vars

\* C21: in the list getBackends returns, a cloud descriptor is available
\* exactly if the store held the key apikey:<id> when init() ran last;
\* without it the reason is 'API key not configured'.
C21_CloudAvailableIffKey ==
    (lastCall.op = "getBackends" /\ lastCall.threw = null) =>
        \A k \in 1..Len(lastCall.result) :
            LET d == lastCall.result[k] IN
            d.type = "cloud" =>
                /\ d.available = (ApiKeyName(d.id) \in initKeys.keys)
                /\ ~d.available => d.reason = "API key not configured"

C21_Witness ==
    /\ lastCall.op = "getBackends"
    /\ lastCall.threw = null
    /\ \E k \in 1..Len(lastCall.result) :
           lastCall.result[k].type = "cloud" /\ lastCall.result[k].available
    /\ \E k \in 1..Len(lastCall.result) :
           lastCall.result[k].type = "cloud" /\ ~lastCall.result[k].available
    /\ ApiKeyName("openai") \notin DOMAIN db
    /\ ApiKeyName("openai") \in initKeys.keys

\* C22: every descriptor getBackends returns with available = FALSE has an
\* empty models list.
C22_UnavailableHasNoModels ==
    (lastCall.op = "getBackends" /\ lastCall.threw = null) =>
        \A k \in 1..Len(lastCall.result) :
            ~lastCall.result[k].available => lastCall.result[k].models = <<>>

\* The same, for the two local descriptors only.
LocalUnavailableHasNoModels ==
    (lastCall.op = "getBackends" /\ lastCall.threw = null) =>
        \A k \in 1..Len(lastCall.result) :
            (lastCall.result[k].type /= "cloud" /\ ~lastCall.result[k].available)
                => lastCall.result[k].models = <<>>

\* ------------------------------------------------------ malformed frames
\* The offsets of the symbols fed so far that lie in no frame.
TextPositions ==
    {p \in 0..(pos - 1) : \A f \in Frames \cup BadFrames : ~(f.s <= p /\ p < f.e)}

Increasing(seq) == \A i, j \in 1..Len(seq) : i < j => seq[i] < seq[j]

PayloadSyms == {"a", BEL, ESC, "\\"}
Payloads == UNION {[1..n -> PayloadSyms] : n \in 0..MaxLen}

codecRest == <<parserVars, streamVars, clientVars, hostVars, routerVars, storageVars,
               adapterVars, emuVars>>

\* encodeMessage(type, {id, data}).
Encode(type, id, data) ==
    /\ encoded' = [message |-> [type |-> type, id |-> id, data |-> data],
                   frame |-> encodeMessage(type, id, data)]
    /\ extracted' = NoParse
    /\ UNCHANGED codecRest

\* parse(frame) on a new ProtocolParser.
Extract ==
    /\ encoded.frame /= <<>>
    /\ ~extracted.done
    /\ LET r == parse(<<>>, EmptyMap, <<>>, 0, encoded.frame)
       IN extracted' = [done |-> TRUE, output |-> r.output, messages |-> r.messages,
                        buffer |-> r.buffer]
    /\ UNCHANGED <<encoded, codecRest>>

CodecInit ==
    ParserInit /\ ClientIdle /\ StreamIdle /\ HostIdle /\ RouterIdle /\ OtherIdle

CodecNext ==
    \/ \E type \in MessageType : \E id \in 1..MaxId : \E data \in Payloads :
           Encode(type, id, data)
    \/ Extract

SpecCodec == CodecInit /\ [][CodecNext]_vars

\* The text between the start marker and the final end marker of a frame.
FrameBody(frame) == SubSeq(frame, Len(OSC_START) + 1, Len(frame) - Len(OSC_END))

\* C24: the body of every frame encodeMessage makes holds no end delimiter,
\* and a parser fed the frame extracts exactly one message, the one encoded,
\* with no output and nothing left in its buffer.
C24_BodyHasNoEndDelimiter ==
    encoded.frame /= <<>> =>
        /\ \A k \in 1..Len(FrameBody(encoded.frame)) : FrameBody(encoded.frame)[k] /= BEL
        /\ extracted.done =>
               /\ extracted.messages = <<encoded.message>>
               /\ extracted.output = <<>>
               /\ extracted.buffer = <<>>

C24_Witness ==
    /\ \E k \in 1..Len(encoded.message.data) : encoded.message.data[k] = BEL
    /\ \E k \in 1..Len(encoded.message.data) : encoded.message.data[k] = ESC
    /\ extracted.done
    /\ Len(extracted.messages) = 1

\* ==================================================== backend adapters
\* The messages of a generate call: role and content.
Roles == {"system", "user", "assistant", "tool"}
Contents == {"c1", "c2"}
Messages == [role : Roles, content : Contents]
Requests == UNION {[1..n -> Messages] : n \in 0..MaxMsgs}

IsSystem(m) == m.role = "system"
NotSystem(m) == m.role /= "system"

\* Array.prototype.find(m => m.role === 'system')?.content.
FindSystemContent(messages) ==
    LET hits == {k \in 1..Len(messages) : IsSystem(messages[k])} IN
    IF hits = {} THEN null
    ELSE messages[CHOOSE k \in hits : \A j \in hits : k <= j].content

\* The prompt generateWithWllama builds: one ChatML block per message with a
\* role it knows, then the header of the answer.
ChatMLBlock(m) ==
    IF m.role \in {"system", "user", "assistant"}
    THEN <<"<|im_start|>", m.role, "\n", m.content, "<|im_end|>", "\n">>
    ELSE <<>>
RECURSIVE ChatML(_)
ChatML(messages) ==
    IF messages = <<>> THEN <<>> ELSE ChatMLBlock(Head(messages)) \o ChatML(Tail(messages))
WllamaPrompt(messages) == ChatML(messages) \o <<"<|im_start|>", "assistant", "\n">>

\* What each adapter hands its backend: chat.completions.create of WebLLM,
\* createCompletion of Wllama, and the request bodies of generateOpenAI and
\* generateAnthropic (sampling parameters left out).
BackendCallOf(adapter, messages) ==
    IF adapter = "webllm"
    THEN [adapter |-> adapter, system |-> null, messages |-> messages, prompt |-> <<>>]
    ELSE IF adapter = "wllama"
    THEN [adapter |-> adapter, system |-> null, messages |-> <<>>,
          prompt |-> WllamaPrompt(messages)]
    ELSE IF adapter = "anthropic"
    THEN [adapter |-> adapter, system |-> FindSystemContent(messages),
          messages |-> SelectSeq(messages, NotSystem), prompt |-> <<>>]
    ELSE [adapter |-> adapter, system |-> null, messages |-> messages, prompt |-> <<>>]

Adapters == {"webllm", "wllama", "openai", "anthropic"}

adapterRest == <<parserVars, streamVars, clientVars, hostVars, routerVars, storageVars,
                 codecVars, emuVars>>

\* generateWithWebLLM, generateWithWllama, generateOpenAI or
\* generateAnthropic, up to the call of the backend.
GenerateWith(adapter) ==
    /\ backendCall' = BackendCallOf(adapter, request)
    /\ UNCHANGED <<request, adapterRest>>

AdapterInit ==
    /\ ParserInit /\ ClientIdle /\ StreamIdle /\ HostIdle /\ RouterIdle
    /\ StorageIdle /\ CodecIdle /\ EmuIdle
    /\ request \in Requests
    /\ backendCall = NoBackendCall

AdapterNext == \E adapter \in Adapters : GenerateWith(adapter)

SpecAdapters == AdapterInit /\ [][AdapterNext]_vars

\* The caller messages a backend call carries: those of its messages list,
\* the one of its system field, the complete blocks of its prompt.
RECURSIVE BlocksOf(_)
BlocksOf(prompt) ==
    IF Len(prompt) >= 6 /\ prompt[5] = "<|im_end|>"
    THEN <<[role |-> prompt[2], content |-> prompt[4]]>> \o BlocksOf(SubSeq(prompt, 7, Len(prompt)))
    ELSE <<>>
Carried(call) ==
    (IF call.system = null THEN <<>> ELSE <<[role |-> "system", content |-> call.system]>>)
        \o call.messages \o BlocksOf(call.prompt)

\* C25: the messages a backend call carries are the caller's: each as often
\* as the caller gave it, the system messages in the caller's order and the
\* other messages in the caller's order.
C25_MessagesPassThrough ==
    backendCall.adapter /= "" =>
        /\ \A m \in Messages : Count(Carried(backendCall), m) = Count(request, m)
        /\ SelectSeq(Carried(backendCall), IsSystem) = SelectSeq(request, IsSystem)
        /\ SelectSeq(Carried(backendCall), NotSystem) = SelectSeq(request, NotSystem)

\* The same, for the WebLLM and OpenAI-compatible adapters, and for the
\* Wllama adapter on the roles its prompt format knows.
MessagesPassThroughElsewhere ==
    (/\ backendCall.adapter \in {"webllm", "openai", "wllama"}
     /\ backendCall.adapter = "wllama" => \A k \in 1..Len(request) : request[k].role /= "tool")
        => Carried(backendCall) = request

\* ------------------------------------------------------ unloadWebLLMModel
\* The step is a call of unloadWebLLMModel().
IsUnloadWebLLMCall ==
    /\ Len(calls') = Len(calls) + 1
    /\ calls'[Len(calls')].op = "unloadWebLLMModel"

\* C26: unloadWebLLMModel called with an engine and a current model leaves
\* webllmEngine and currentModel null, whatever currentBackend is.
C26_UnloadClearsModel ==
    [][(IsUnloadWebLLMCall /\ webllmEngine /= null /\ currentModel /= null)
           => (webllmEngine' = null /\ currentModel' = null)]_vars

\* The same, for the calls made while currentBackend is 'webllm'; any call
\* leaves webllmEngine null.
UnloadClearsCurrentWebLLM ==
    [][IsUnloadWebLLMCall
           => /\ webllmEngine' = null
              /\ currentBackend = "webllm" => (currentModel' = null /\ currentBackend' = null)]_vars

\* ------------------------------------------------------------ isAvailable
\* C27: after init, isAvailable() is false when WebGPU is unavailable and
\* no provider is configured, and true when WebGPU is available or a
\* provider is configured.
C27_AvailableIffGpuOrProvider ==
    (lastCall.op = "isAvailable" /\ lastCall.threw = null) =>
        lastCall.result = (webgpuAvailable \/ Len(providers) > 0)

\* What isAvailable() answers: WebAssembly counts as well.
AvailableIffAnyBackend ==
    (lastCall.op = "isAvailable" /\ lastCall.threw = null) =>
        lastCall.result = (webgpuAvailable \/ wasmAvailable \/ Len(providers) > 0)

\* ------------------------------------------------- load and unload calls
\* The router under direct load and unload calls only, MaxCalls of them, in
\* a browser with or without WebGPU and WebAssembly.
LoadInit ==
    /\ ParserInit /\ ClientIdle /\ StreamIdle /\ HostIdle /\ OtherIdle
    /\ webllmEngine = null
    /\ wllamaInstance = null
    /\ currentModel = null
    /\ currentBackend = null
    /\ providers = <<>>
    /\ activeLocalModel = null
    /\ webgpuAvailable \in BOOLEAN
    /\ wasmAvailable \in BOOLEAN
    /\ calls = <<>>

LoadBudget == Len(calls) < MaxCalls

LoadNext ==
    \/ \E m \in ModelIds : LoadBudget /\ LoadWebLLMModel(m)
    \/ \E m \in ModelIds : LoadBudget /\ LoadWllamaModel(m)
    \/ LoadBudget /\ UnloadWebLLMModel
    \/ LoadBudget /\ UnloadWllamaModel
    \/ LoadBudget /\ UnloadModel
    \/ \E c \in 1..Len(calls) : CallLoadWebLLMDone(c)
    \/ \E c \in 1..Len(calls) : CallLoadWllamaImportDone(c)
    \/ \E c \in 1..Len(calls) : CallLoadWllamaModelDone(c)
    \/ \E c \in 1..Len(calls) : CallLoadFails(c)
    \/ \E c \in 1..Len(calls) : UnloadModelContinues(c)
    \/ \E c \in 1..Len(calls) : ExitDone(c)

SpecLoad == LoadInit /\ [][LoadNext]_vars

\* The step is a call of the load method op with the argument modelId.
IsLoadCall(op, modelId) ==
    /\ Len(calls') = Len(calls) + 1
    /\ calls'[Len(calls')].op = op
    /\ calls'[Len(calls')].modelId = modelId

\* The call made in the step has thrown message, and the four fields are as
\* they were.
FailsAtOnce(message) ==
    /\ calls'[Len(calls')].pc = "done"
    /\ calls'[Len(calls')].outcome = "threw"
    /\ calls'[Len(calls')].error = message
    /\ UNCHANGED <<webllmEngine, wllamaInstance, currentModel, currentBackend>>

\* C28: loadWebLLMModel without WebGPU, and loadWllamaModel without
\* WebAssembly or with a model id that is not in the catalog, throw their
\* error before any await and leave webllmEngine, wllamaInstance,
\* currentModel and currentBackend unchanged.
C28_LoadFailsAtOnce ==
    [][\A m \in ModelIds :
           /\ (IsLoadCall("loadWebLLMModel", m) /\ ~webgpuAvailable)
                  => FailsAtOnce(WEBGPU_NOT_AVAILABLE)
           /\ (IsLoadCall("loadWllamaModel", m) /\ ~wasmAvailable)
                  => FailsAtOnce(WEBASSEMBLY_NOT_AVAILABLE)
           /\ (IsLoadCall("loadWllamaModel", m) /\ wasmAvailable /\ ~isWllamaModel(m))
                  => FailsAtOnce(UnknownModel(m))]_vars

C28_Witness ==
    /\ Len(calls) = 3
    /\ calls[1].op = "loadWllamaModel" /\ calls[1].outcome = "returned"
    /\ calls[2].error = WEBGPU_NOT_AVAILABLE
    /\ calls[3].error = UnknownModel(WEBLLM_MODEL)
    /\ wllamaInstance /= null
    /\ currentModel = WLLAMA_MODEL
    /\ currentBackend = "wllama"

\* ------------------------------------------------------- the config store
\* The step is a setConfig or deleteConfig call on key.
IsWriteOf(key) ==
    /\ lastCall'.op \in {"setConfig", "deleteConfig", "setApiKey", "deleteApiKey"}
    /\ lastCall'.key = key

\* C29: getConfig(k) returns the value of the latest setConfig(k, v) that no
\* deleteConfig(k) has followed, and undefined if there is none; a call on
\* one key leaves the value read for every other key as it was.
C29_GetReturnsLatestSet ==
    /\ [](lastCall.op = "getConfig" =>
              lastCall.result = (IF lastCall.key \in DOMAIN lastSet
                                 THEN lastSet[lastCall.key] ELSE undefined))
    /\ [][\A k1, k2 \in {ConfigKeys[k] : k \in 1..Len(ConfigKeys)} :
              (k1 /= k2 /\ IsWriteOf(k1)) => StoreGet(db', k2) = StoreGet(db, k2)]_vars

C29_Witness ==
    /\ lastCall.op = "getConfig"
    /\ lastCall.key = ACTIVE_LOCAL_MODEL
    /\ lastCall.result = Plain("v2")
    /\ StoreGet(db, ApiKeyName("openai")) = Plain("v1")
    /\ ApiKeyName("anthropic") \notin DOMAIN db
    /\ ApiKeyName("anthropic") \in initKeys.keys

\* C30: setApiKey and getApiKey called while no encryption key is set throw
\* 'Encryption key not set' and leave the config store, and so the list of
\* listApiKeyProviders, as they were.
C30_NoKeyNoChange ==
    [][(lastCall'.op \in {"setApiKey", "getApiKey"} /\ encryptionKey = null)
           => /\ lastCall'.threw = ENCRYPTION_KEY_NOT_SET
              /\ db' = db
              /\ listApiKeyProviders(db') = listApiKeyProviders(db)]_vars

C30_Witness ==
    /\ lastCall.op = "setApiKey"
    /\ lastCall.key = ApiKeyName("anthropic")
    /\ lastCall.threw = ENCRYPTION_KEY_NOT_SET
    /\ encryptionKey = null
    /\ listApiKeyProviders(db) = <<"openai">>
    /\ db[ApiKeyName("openai")].value.kind = "encrypted"

\* ------------------------------------------- the buffer a parse call leaves
\* The streams of SpecParse, and those with a start marker that no end marker
\* follows.
OpenSegments == Segments \cup {OSC_START}

ParseOpenInit ==
    /\ ParserInit
    /\ ClientIdle
    /\ HostIdle
    /\ RouterIdle
    /\ OtherIdle
    /\ segs \in UNION {[1..k -> OpenSegments] : k \in 0..MaxSegs}
    /\ pos = 0
    /\ outPosAcc = <<>>
    /\ msgAcc = <<>>
    /\ msgPosAcc = <<>>
    /\ openFrames = {}
    /\ markerCut = FALSE

SpecParseOpen == ParseOpenInit /\ [][ParseNext]_vars

\* C35: after every parse call the buffer is empty, or it begins with the
\* complete start marker and holds no end marker; it is the end of what has
\* been fed, and none of its symbols has been output.
C35_RetainedBuffer ==
    /\ \/ buffer = <<>>
       \/ /\ MatchesAt(buffer, OSC_START, 0)
          /\ IndexOf(buffer, OSC_END, 0) = -1
    /\ Len(buffer) <= pos
    /\ buffer = SubSeq(Stream, pos - Len(buffer) + 1, pos)
    /\ \A k \in 1..Len(outPosAcc) : outPosAcc[k] < pos - Len(buffer)

\* The whole stream has been fed; it ends in text after a start marker that
\* no end marker follows, and that text is in the buffer and not in any
\* output.
C35_Witness ==
    /\ pos = Len(Stream)
    /\ segs = <<OSC_START, <<"a">>>>
    /\ buffer = OSC_START \o <<"a">>
    /\ outPosAcc = <<>>

\* ------------------------------------------ activeRequests and cancellation
\* Call r of handleLLMRequest is waiting for router.generate and no cancel
\* frame has aborted it.
Running(r) == reqs[r].pc /= "done" /\ ~reqs[r].aborted

\* The AbortController of call r is the one stored under its id.
Registered(r) ==
    reqs[r].id \in DOMAIN activeRequests /\ activeRequests[reqs[r].id] = r

\* C33: activeRequests holds the cancellation handle of a call exactly while
\* the call is running and has not been cancelled.
C33_ActiveWhileInFlight ==
    /\ \A r \in 1..Len(reqs) : Running(r) => Registered(r)
    /\ \A i \in DOMAIN activeRequests :
           /\ activeRequests[i] \in 1..Len(reqs)
           /\ reqs[activeRequests[i]].id = i
           /\ Running(activeRequests[i])

\* The same for the calls whose id no other call has carried.
ActiveWhileInFlightUniqueIds ==
    /\ \A r \in 1..Len(reqs) :
           (Running(r) /\ \A r2 \in 1..Len(reqs) : r2 /= r => reqs[r2].id /= reqs[r].id)
               => Registered(r)
    /\ \A i \in DOMAIN activeRequests :
           /\ activeRequests[i] \in 1..Len(reqs)
           /\ reqs[activeRequests[i]].id = i
           /\ Running(activeRequests[i])

\* Some call with this id has not ended.
InFlight(id) == \E r \in 1..Len(reqs) : reqs[r].id = id /\ reqs[r].pc /= "done"

\* C34: a processOutput call on one llm:cancel frame for id writes no frame
\* and leaves every call with another id, and the handle stored under every
\* other id, as they were; if no call with that id is in flight it changes
\* nothing at all.
C34_CancelIsolated ==
    [][\A id \in 1..MaxId :
           ProcessOutput(encodeMessage(LLM_CANCEL, id, <<>>)) =>
               /\ hostOut' = hostOut
               /\ Len(reqs') = Len(reqs)
               /\ \A r \in 1..Len(reqs) : reqs[r].id /= id => reqs'[r] = reqs[r]
               /\ \A i \in (DOMAIN activeRequests) \ {id} :
                      i \in DOMAIN activeRequests' /\ activeRequests'[i] = activeRequests[i]
               /\ (DOMAIN activeRequests') \ {id} = (DOMAIN activeRequests) \ {id}
               /\ ~InFlight(id) =>
                      /\ activeRequests' = activeRequests
                      /\ reqs' = reqs
                      /\ buffer' = buffer]_vars

\* Two calls with different ids were in flight when one of them was
\* cancelled; the other went on writing frames and returned.
C34_Witness ==
    \E r1, r2 \in 1..Len(reqs) :
        /\ reqs[r1].id /= reqs[r2].id
        /\ reqs[r1].aborted
        /\ reqs[r2].pc = "done" /\ reqs[r2].outcome = "returned" /\ ~reqs[r2].aborted
        /\ \E k \in 1..Len(hostOut) : hostOut[k].req = r2 /\ k <= reqs[r1].cancelAt
        /\ \E k \in 1..Len(hostOut) : hostOut[k].req = r2 /\ k > reqs[r1].cancelAt

\* ------------------------------------------------ what onChunk is handed
\* The contents onChunk was called with, end to end.
RECURSIVE Concat(_)
Concat(ss) == IF ss = <<>> THEN <<>> ELSE Head(ss) \o Concat(Tail(ss))

\* The invocations of onChunk with done: true (their content is '', and
\* every other invocation carries a non-empty delta).
DoneCalls(q) == {k \in 1..Len(q.emitted) : q.emitted[k] = <<>>}

\* Call r returned through a cloud provider.
ReturnedByCloud(q) ==
    /\ q.pc = "done" /\ q.outcome = "returned"
    /\ q.attempts /= <<>> /\ IsProvider(q.attempts[Len(q.attempts)])

\* C32: for a generate call that returned through the cloud path, the
\* content deltas handed to onChunk, end to end, are the content of the
\* result, and onChunk was called with done: true once, in its last
\* invocation.
C32_DeltasEqualResult ==
    \A r \in 1..Len(reqs) :
        ReturnedByCloud(reqs[r]) =>
            /\ Concat(reqs[r].emitted) = reqs[r].result
            /\ DoneCalls(reqs[r]) = {Len(reqs[r].emitted)}

\* The same for the calls no provider of which failed.
DeltasEqualResultFirstProvider ==
    \A r \in 1..Len(reqs) :
        (ReturnedByCloud(reqs[r]) /\ reqs[r].failures = <<>>) =>
            /\ Concat(reqs[r].emitted) = reqs[r].result
            /\ DoneCalls(reqs[r]) = {Len(reqs[r].emitted)}

\* In every returned call onChunk was called with done: true once, last.
OneDoneChunkLast ==
    \A r \in 1..Len(reqs) :
        (reqs[r].pc = "done" /\ reqs[r].outcome = "returned") =>
            DoneCalls(reqs[r]) = {Len(reqs[r].emitted)}

\* ===================================== EmulatorController and its worker
\* A message between the main thread and the worker: its type and the one
\* field the receiver reads (status, error, version or text); a
\* status_response carries initialized and running as well.
Msg(type, arg) == [type |-> type, arg |-> arg, initialized |-> FALSE, running |-> FALSE]
StatusResponse(initialized, running, version) ==
    [type |-> "status_response", arg |-> version,
     initialized |-> initialized, running |-> running]

\* tinyemuVersion().
VERSION == "0.1.0"

\* A promise settles once.
Settle(state, to) == IF state = "pending" THEN to ELSE state

\* new EmulatorController(options), followed by init() up to the return of
\* its promise: the worker is created and the message handler overridden.
\* With the controller's fields (status, version, pendingCallbacks) the
\* record holds the promise of init() (initPromise), the types of the
\* messages the controller has handled (seen), whether an error message was
\* handled before any init_complete (errorFirst), the number of init messages
\* it has posted (initPosts), the calls of start, stop and getStatus made on
\* it (calls); the two message queues; and the worker's variables: where its
\* script or its init handler is suspended (workerPc), emulatorInitialized,
\* emulatorRunning and what tinyemuSendInput has been given (received).
NewEmulator ==
    [status |-> "not_initialized", version |-> null, pendingCallbacks |-> EmptyMap,
     initPromise |-> "pending", seen |-> {}, errorFirst |-> FALSE, initPosts |-> 0,
     calls |-> <<>>,
     toWorker |-> <<>>, toMain |-> <<>>,
     workerPc |-> "loading", emulatorInitialized |-> FALSE, emulatorRunning |-> FALSE,
     received |-> <<>>]

\* postMessage, in the two directions.
PostToWorker(e, m) == [e EXCEPT !.toWorker = Append(@, m)]
PostToMain(e, m) == [e EXCEPT !.toMain = Append(@, m)]

\* A checkReady that posts init for any message.
checkReadyEager(e, data) ==
    IF data.type = "init_complete"
    THEN [e EXCEPT !.version = data.arg, !.status = "ready",
                   !.initPromise = Settle(@, "resolved")]
    ELSE IF data.type = "error"
    THEN [e EXCEPT !.initPromise = Settle(@, "rejected")]
    ELSE [PostToWorker(e, Msg("init", "")) EXCEPT !.initPosts = @ + 1]

\* The checkReady closure of init().
checkReady(e, data) ==
    IF data.type = "worker_ready"
    THEN [PostToWorker(e, Msg("init", "")) EXCEPT !.initPosts = @ + 1]
    ELSE IF data.type = "init_complete"
    THEN [e EXCEPT !.version = data.arg, !.status = "ready",
                   !.initPromise = Settle(@, "resolved")]
    ELSE IF data.type = "error"
    THEN [e EXCEPT !.initPromise = Settle(@, "rejected")]
    ELSE e

\* A call of start, stop or getStatus: its promise (state), what settled it
\* (by), its result if it is a getStatus, and its timer.
NoResult == [initialized |-> FALSE, running |-> FALSE, version |-> null]
NewEmuCall(method, caller) ==
    [method |-> method, caller |-> caller, state |-> "pending", by |-> "",
     result |-> NoResult, timer |-> "armed"]

\* The key under which a method keeps its callback in pendingCallbacks.
CallbackKey(method) ==
    IF method = "start" THEN "start_complete"
    ELSE IF method = "stop" THEN "stop_complete"
    ELSE "status"

\* callback.resolve(...) or reject(...) of call k.
SettleCall(e, k, to, by, result) ==
    IF e.calls[k].state = "pending"
    THEN [e EXCEPT !.calls[k].state = to, !.calls[k].by = by, !.calls[k].result = result]
    ELSE e

\* handleMessage, cases start_complete, stop_complete and status_response.
ResolvePending(e, key, result) ==
    IF key \in DOMAIN e.pendingCallbacks
    THEN [SettleCall(e, e.pendingCallbacks[key], "resolved", "reply", result)
            EXCEPT !.pendingCallbacks = MapDelete(@, key)]
    ELSE e

\* EmulatorController.handleMessage (the method of the class); output
\* messages go to handleOutput and error messages to onError, which touch
\* no field of the controller.
EmulatorHandleMessage(e, data) ==
    IF data.type = "status" THEN [e EXCEPT !.status = data.arg]
    ELSE IF data.type = "init_complete" THEN [e EXCEPT !.version = data.arg]
    ELSE IF data.type \in {"start_complete", "stop_complete"}
    THEN ResolvePending(e, data.type, NoResult)
    ELSE IF data.type = "status_response"
    THEN ResolvePending(e, "status",
                        [initialized |-> data.initialized, running |-> data.running,
                         version |-> data.arg])
    ELSE e

\* The handler init() installs: checkReady, then the original handler.
OverriddenHandler(e, data) ==
    LET e1 == [e EXCEPT !.seen = @ \cup {data.type},
                        !.errorFirst = @ \/ (data.type = "error"
                                             /\ "init_complete" \notin e.seen)]
    IN EmulatorHandleMessage(checkReady(e1, data), data)

\* start(), stop() and getStatus() up to the return of their promise.
CallMethod(e, method, caller) ==
    PostToWorker([e EXCEPT !.calls = Append(@, NewEmuCall(method, caller)),
                           !.pendingCallbacks =
                               MapSet(@, CallbackKey(method), Len(e.calls) + 1)],
                 Msg(IF method = "getStatus" THEN "status" ELSE method, ""))

\* sendInput(text).
sendInput(e, text) == PostToWorker(e, Msg("input", text))

\* isRunning().
isRunning(e) == e.status = "running"

\* The delay of the timer each method arms, in milliseconds.
Delay(method) ==
    IF method = "start" THEN 60000 ELSE IF method = "stop" THEN 5000 ELSE 1000

\* A timer callback that looks at its own call only.
TimeoutOwn(e, k) ==
    LET key == CallbackKey(e.calls[k].method)
        e1 == [e EXCEPT !.calls[k].timer = "fired"]
    IN IF key \in DOMAIN e.pendingCallbacks /\ e.pendingCallbacks[key] = k
       THEN [SettleCall(e1, k,
                        IF e.calls[k].method = "start" THEN "rejected" ELSE "resolved",
                        "timeout",
                        [initialized |-> FALSE, running |-> FALSE, version |-> e.version])
               EXCEPT !.pendingCallbacks = MapDelete(@, key)]
       ELSE e1

\* The setTimeout callback of call k: start rejects with 'Start timeout',
\* stop resolves, getStatus resolves with initialized and running false.
Timeout(e, k) ==
    LET key == CallbackKey(e.calls[k].method)
        e1 == [e EXCEPT !.calls[k].timer = "fired"]
    IN IF key \in DOMAIN e.pendingCallbacks
       THEN [SettleCall(e1, k,
                        IF e.calls[k].method = "start" THEN "rejected" ELSE "resolved",
                        "timeout",
                        [initialized |-> FALSE, running |-> FALSE, version |-> e.version])
               EXCEPT !.pendingCallbacks = MapDelete(@, key)]
       ELSE e1

\* Timers run out in the order of their deadlines: the timer of call k may
\* fire once no timer armed before it with a delay no longer than its own
\* is still armed.
TimerDue(e, k) ==
    /\ e.calls[k].timer = "armed"
    /\ \A j \in 1..(k - 1) :
           e.calls[j].timer = "armed" => Delay(e.calls[j].method) > Delay(e.calls[k].method)

\* ------------------------------------------------------------ worker.js
\* handlers.init up to its first await.
WorkerInit(e) ==
    [PostToMain(e, Msg("status", "loading_wasm")) EXCEPT !.workerPc = "initFetch"]

\* handlers.start.
WorkerStart(e) ==
    IF ~e.emulatorInitialized THEN PostToMain(e, Msg("error", "Emulator not initialized"))
    ELSE IF e.emulatorRunning THEN PostToMain(e, Msg("error", "Emulator already running"))
    ELSE [PostToMain(PostToMain(PostToMain(e, Msg("status", "booting")),
                                Msg("status", "running")),
                     Msg("start_complete", ""))
            EXCEPT !.emulatorRunning = TRUE]

\* handlers.stop.
WorkerStop(e) ==
    IF ~e.emulatorRunning THEN e
    ELSE [PostToMain(PostToMain(e, Msg("status", "stopped")), Msg("stop_complete", ""))
            EXCEPT !.emulatorRunning = FALSE]

\* handlers.input.
WorkerInput(e, data) ==
    IF ~e.emulatorRunning THEN e ELSE [e EXCEPT !.received = @ \o data.arg]

\* handlers.status.
WorkerStatus(e) ==
    PostToMain(e, StatusResponse(e.emulatorInitialized, e.emulatorRunning, VERSION))

\* self.onmessage.
WorkerOnMessage(e, data) ==
    IF data.type = "init" THEN WorkerInit(e)
    ELSE IF data.type = "start" THEN WorkerStart(e)
    ELSE IF data.type = "stop" THEN WorkerStop(e)
    ELSE IF data.type = "input" THEN WorkerInput(e, data)
    ELSE IF data.type = "status" THEN WorkerStatus(e)
    ELSE PostToMain(e, Msg("error", "Unknown message type"))

\* ------------------------------------------------------------- AyoApp
emuRest == <<parserVars, streamVars, clientVars, hostVars, routerVars, storageVars,
             codecVars, adapterVars>>

\* An initEmulator call and the controller it was handed, or whose
\* initialisation the promise it was handed is for.
InitCall(from, got) == [from |-> from, got |-> got]

\* An initEmulator without the emulatorInitPromise test.
InitEmulatorUnguarded(from) ==
    IF emulator /= 0
    THEN /\ initCalls' = Append(initCalls, InitCall(from, emulator))
         /\ UNCHANGED <<emus, emulatorInitPromise>>
    ELSE /\ emus' = Append(emus, NewEmulator)
         /\ emulatorInitPromise' = Len(emus) + 1
         /\ initCalls' = Append(initCalls, InitCall(from, Len(emus) + 1))

\* AyoApp.initEmulator up to its return: the async function it starts runs
\* new EmulatorController(...).init() before its first await.
InitEmulator(from) ==
    IF emulator /= 0
    THEN /\ initCalls' = Append(initCalls, InitCall(from, emulator))
         /\ UNCHANGED <<emus, emulatorInitPromise>>
    ELSE IF emulatorInitPromise /= 0
    THEN /\ initCalls' = Append(initCalls, InitCall(from, emulatorInitPromise))
         /\ UNCHANGED <<emus, emulatorInitPromise>>
    ELSE /\ emus' = Append(emus, NewEmulator)
         /\ emulatorInitPromise' = Len(emus) + 1
         /\ initCalls' = Append(initCalls, InitCall(from, Len(emus) + 1))

Tabs == {"chat", "terminal"}

\* AyoApp.switchTab(tabId).
SwitchTab(tabId) ==
    /\ tabId /= activeTab
    /\ activeTab' = tabId
    /\ IF tabId = "terminal" /\ mode = "offline"
       THEN Len(initCalls) < MaxInits /\ InitEmulator("switchTab")
       ELSE UNCHANGED <<emus, emulatorInitPromise, initCalls>>
    /\ UNCHANGED <<emulator, mode, terminal, inputBuffer, typed, emuRest>>

\* AyoApp.initTerminal(container) while there is no terminal yet, up to
\* its await of initEmulator(); with the emulator there already it goes on
\* to make the TerminalManager.
InitTerminal ==
    /\ ~terminal
    /\ Len(initCalls) < MaxInits
    /\ InitEmulator("initTerminal")
    /\ terminal' = (emulator /= 0)
    /\ UNCHANGED <<emulator, activeTab, mode, inputBuffer, typed, emuRest>>

\* A message event on the main thread: the handler init() installed runs,
\* and then what awaits the promises it settled: initEmulator sets
\* this.emulator, initTerminal makes the TerminalManager, startVM calls
\* showReadyMessage, which flushes the input buffer.
MainReceive(c) ==
    /\ emus[c].toMain /= <<>>
    /\ LET data == Head(emus[c].toMain)
           e1 == OverriddenHandler([emus[c] EXCEPT !.toMain = Tail(@)], data)
           initResolved == emus[c].initPromise = "pending" /\ e1.initPromise = "resolved"
           startResolved ==
               \E k \in 1..Len(e1.calls) :
                   /\ e1.calls[k].caller = "startVM"
                   /\ emus[c].calls[k].state = "pending"
                   /\ e1.calls[k].state = "resolved"
           flush == startResolved /\ terminal /\ inputBuffer /= <<>> /\ isRunning(e1)
       IN /\ emus' = [emus EXCEPT ![c] = IF flush THEN sendInput(e1, inputBuffer) ELSE e1]
          /\ inputBuffer' = IF flush THEN <<>> ELSE inputBuffer
          /\ emulator' = IF initResolved /\ emulatorInitPromise = c THEN c ELSE emulator
          /\ terminal' = (terminal \/ (initResolved /\ \E k \in 1..Len(initCalls) :
                                          initCalls[k] = InitCall("initTerminal", c)))
    /\ UNCHANGED <<emulatorInitPromise, activeTab, mode, initCalls, typed, emuRest>>

appRest == <<emulator, emulatorInitPromise, activeTab, mode, terminal, initCalls,
             inputBuffer, typed, emuRest>>

\* The worker's script has run to its end: postMessage worker_ready.
WorkerLoaded(c) ==
    /\ emus[c].workerPc = "loading"
    /\ emus' = [emus EXCEPT ![c] = [PostToMain(@, Msg("worker_ready", ""))
                                       EXCEPT !.workerPc = "idle"]]
    /\ UNCHANGED appRest

\* The worker's script fails; worker.onerror rejects the promise of init().
WorkerLoadFails(c) ==
    /\ emus[c].workerPc = "loading"
    /\ emus' = [emus EXCEPT ![c].workerPc = "failed",
                            ![c].initPromise = Settle(@, "rejected")]
    /\ UNCHANGED appRest

\* A message event in the worker.
WorkerReceive(c) ==
    /\ emus[c].workerPc \notin {"loading", "failed"}
    /\ emus[c].toWorker /= <<>>
    /\ emus' = [emus EXCEPT ![c] = WorkerOnMessage([@ EXCEPT !.toWorker = Tail(@)],
                                                   Head(emus[c].toWorker))]
    /\ UNCHANGED appRest

\* handlers.init: the module is fetched and instantiated, the Go runtime
\* started.
WorkerInitFetched(c) ==
    /\ emus[c].workerPc = "initFetch"
    /\ emus' = [emus EXCEPT ![c] = [PostToMain(@, Msg("status", "starting_go"))
                                       EXCEPT !.workerPc = "initWait"]]
    /\ UNCHANGED appRest

\* handlers.init: fetch or instantiateStreaming rejects; the catch posts the
\* error.
WorkerInitFails(c) ==
    /\ emus[c].workerPc = "initFetch"
    /\ emus' = [emus EXCEPT ![c] = [PostToMain(@, Msg("error", "fetch failed"))
                                       EXCEPT !.workerPc = "idle"]]
    /\ UNCHANGED appRest

\* handlers.init after the 100 ms wait.
WorkerInitDone(c) ==
    /\ emus[c].workerPc = "initWait"
    /\ emus' = [emus EXCEPT ![c] =
                   [PostToMain(PostToMain(@, Msg("status", "ready")),
                               Msg("init_complete", VERSION))
                      EXCEPT !.workerPc = "idle", !.emulatorInitialized = TRUE]]
    /\ UNCHANGED appRest

\* AyoApp.startVM() up to its await of emulator.start().
StartVM ==
    /\ emulator /= 0
    /\ Len(emus[emulator].calls) < MaxOps
    /\ emus' = [emus EXCEPT ![emulator] = CallMethod(@, "start", "startVM")]
    /\ UNCHANGED appRest

\* EmulatorController.stop() and getStatus(), called on the app's emulator.
Stop ==
    /\ emulator /= 0
    /\ Len(emus[emulator].calls) < MaxOps
    /\ emus' = [emus EXCEPT ![emulator] = CallMethod(@, "stop", "")]
    /\ UNCHANGED appRest

GetStatus ==
    /\ emulator /= 0
    /\ Len(emus[emulator].calls) < MaxOps
    /\ emus' = [emus EXCEPT ![emulator] = CallMethod(@, "getStatus", "")]
    /\ UNCHANGED appRest

\* The timer of call k on controller c runs out.
TimerFires(c, k) ==
    /\ TimerDue(emus[c], k)
    /\ emus' = [emus EXCEPT ![c] = Timeout(@, k)]
    /\ UNCHANGED appRest

\* The onData handler TerminalManager.init registers, for one symbol typed.
OnData ==
    /\ terminal
    /\ typed < MaxTyped
    /\ typed' = typed + 1
    /\ IF emulator /= 0 /\ isRunning(emus[emulator])
       THEN /\ emus' = [emus EXCEPT ![emulator] = sendInput(@, <<typed + 1>>)]
            /\ UNCHANGED inputBuffer
       ELSE /\ inputBuffer' = inputBuffer \o <<typed + 1>>
            /\ UNCHANGED emus
    /\ UNCHANGED <<emulator, emulatorInitPromise, activeTab, mode, terminal, initCalls,
                   emuRest>>

\* The application after AyoApp.init(), in either mode.
EmuInit ==
    /\ ParserInit /\ ClientIdle /\ StreamIdle /\ HostIdle /\ RouterIdle
    /\ StorageIdle /\ CodecIdle /\ AdapterIdle
    /\ emus = <<>>
    /\ emulator = 0
    /\ emulatorInitPromise = 0
    /\ activeTab = "chat"
    /\ mode \in {"offline", "connected"}
    /\ terminal = FALSE
    /\ initCalls = <<>>
    /\ inputBuffer = <<>>
    /\ typed = 0

EmuNext ==
    \/ \E t \in Tabs : SwitchTab(t)
    \/ InitTerminal
    \/ \E c \in 1..Len(emus) : WorkerLoaded(c)
    \/ \E c \in 1..Len(emus) : WorkerLoadFails(c)
    \/ \E c \in 1..Len(emus) : WorkerReceive(c)
    \/ \E c \in 1..Len(emus) : WorkerInitFetched(c)
    \/ \E c \in 1..Len(emus) : WorkerInitFails(c)
    \/ \E c \in 1..Len(emus) : WorkerInitDone(c)
    \/ \E c \in 1..Len(emus) : MainReceive(c)

SpecEmuInit == EmuInit /\ [][EmuNext]_vars

\* A controller whose init() has resolved, all messages handled.
ReadyEmulator ==
    [NewEmulator EXCEPT !.status = "ready", !.version = VERSION,
                        !.initPromise = "resolved",
                        !.seen = {"worker_ready", "status", "init_complete"},
                        !.initPosts = 1, !.workerPc = "idle",
                        !.emulatorInitialized = TRUE]

\* The application after initTerminal() has returned, in offline mode.
EmuReadyInit ==
    /\ ParserInit /\ ClientIdle /\ StreamIdle /\ HostIdle /\ RouterIdle
    /\ StorageIdle /\ CodecIdle /\ AdapterIdle
    /\ emus = <<ReadyEmulator>>
    /\ emulator = 1
    /\ emulatorInitPromise = 1
    /\ activeTab = "chat"
    /\ mode = "offline"
    /\ terminal = TRUE
    /\ initCalls = <<InitCall("initTerminal", 1)>>
    /\ inputBuffer = <<>>
    /\ typed = 0

\* That state is one the application comes to.
ReadyReached ==
    /\ emus = <<ReadyEmulator>>
    /\ emulator = 1
    /\ emulatorInitPromise = 1
    /\ activeTab = "chat"
    /\ mode = "offline"
    /\ terminal = TRUE
    /\ initCalls = <<InitCall("initTerminal", 1)>>

EmuCallsNext ==
    \/ StartVM
    \/ Stop
    \/ GetStatus
    \/ \E c \in 1..Len(emus) : WorkerReceive(c)
    \/ \E c \in 1..Len(emus) : MainReceive(c)
    \/ \E c \in 1..Len(emus) : \E k \in 1..Len(emus[c].calls) : TimerFires(c, k)

SpecEmuCalls == EmuReadyInit /\ [][EmuCallsNext]_vars

\* Every message that is posted is handled, and every timer that is armed
\* runs out.
SpecEmuCallsFair ==
    /\ SpecEmuCalls
    /\ WF_vars(\E c \in 1..Len(emus) : WorkerReceive(c))
    /\ WF_vars(\E c \in 1..Len(emus) : MainReceive(c))
    /\ WF_vars(\E c \in 1..Len(emus) : \E k \in 1..Len(emus[c].calls) : TimerFires(c, k))

TerminalNext ==
    \/ OnData
    \/ StartVM
    \/ \E c \in 1..Len(emus) : WorkerReceive(c)
    \/ \E c \in 1..Len(emus) : MainReceive(c)
    \/ \E c \in 1..Len(emus) : \E k \in 1..Len(emus[c].calls) : TimerFires(c, k)

SpecTerminal == EmuReadyInit /\ [][TerminalNext]_vars

\* ============================================================ C31, C36
\* C31: whatever the interleaving of initEmulator calls from switchTab and
\* initTerminal, at most one EmulatorController is ever created and
\* initialised, every call is handed that controller or the promise of its
\* initialisation, and this.emulator is never any other.
C31_OneController ==
    /\ Len(emus) <= 1
    /\ \A k \in 1..Len(initCalls) : initCalls[k].got = 1 /\ Len(emus) = 1
    /\ emulator \in {0, 1}
    /\ emulator = 1 => Len(emus) = 1 /\ emus[1].initPromise = "resolved"

\* Calls from both callers while the initialisation is still under way.
C31_Witness ==
    /\ Len(emus) = 1
    /\ emulator = 0
    /\ emus[1].initPromise = "pending"
    /\ emus[1].toMain /= <<>>
    /\ \E i, j \in 1..Len(initCalls) :
           /\ i < j
           /\ initCalls[i].from = "switchTab"
           /\ initCalls[j].from = "initTerminal"

\* The calls made before the initialisation ended and the calls made after
\* it all hold the one controller.
OneControllerAfterInit ==
    (emulator = 1 /\ Len(initCalls) = MaxInits) =>
        \A k \in 1..Len(initCalls) : initCalls[k].got = emulator

\* C36: the controller posts init only in handling worker_ready; the
\* promise of init() resolves only in handling init_complete, with status
\* ready and the version set; and once an error message has been handled
\* before any init_complete the promise is rejected.
C36_Handshake ==
    /\ [][\A c \in 1..Len(emus) :
              emus'[c].initPosts /= emus[c].initPosts =>
                  /\ emus[c].toMain /= <<>>
                  /\ Head(emus[c].toMain).type = "worker_ready"]_vars
    /\ [](\A c \in 1..Len(emus) :
              emus[c].initPosts > 0 => "worker_ready" \in emus[c].seen)
    /\ [][\A c \in 1..Len(emus) :
              (emus[c].initPromise /= "resolved" /\ emus'[c].initPromise = "resolved") =>
                  /\ emus[c].toMain /= <<>>
                  /\ Head(emus[c].toMain).type = "init_complete"
                  /\ emus'[c].status = "ready"
                  /\ emus'[c].version = VERSION]_vars
    /\ [](\A c \in 1..Len(emus) :
              emus[c].initPromise = "resolved" =>
                  /\ "init_complete" \in emus[c].seen
                  /\ emus[c].version /= null)
    /\ [](\A c \in 1..Len(emus) : emus[c].errorFirst => emus[c].initPromise = "rejected")

\* The handshake has run to its end.
C36_Witness ==
    /\ Len(emus) = 1
    /\ emus[1].initPromise = "resolved"
    /\ emus[1].initPosts = 1
    /\ emus[1].status = "ready"
    /\ emus[1].version = VERSION
    /\ emus[1].toMain = <<>>

\* The worker reports an error and the promise is rejected.
HandshakeRejected ==
    \E c \in 1..Len(emus) : emus[c].errorFirst /\ emus[c].initPromise = "rejected"

\* ============================================================ C37, C38
\* Call k has been made on the app's controller / has settled.
Made(k) == k <= Len(emus[1].calls)
Settled(k) == Made(k) /\ emus[1].calls[k].state /= "pending"

\* C37: every call of start, stop and getStatus eventually settles, also
\* when two calls of one method overlap.
C37_EveryCallSettles ==
    \A k \in 1..MaxOps : [](Made(k) => <>Settled(k))

\* A call settles when no other call of its method is made: by the reply,
\* or by its timer when the worker answers with an error or not at all.
LoneCallSettles ==
    \A k \in 1..MaxOps :
        [](Made(k) =>
              <>(\/ Settled(k)
                 \/ /\ Made(k)
                    /\ \E j \in 1..Len(emus[1].calls) :
                           j /= k /\ emus[1].calls[j].method = emus[1].calls[k].method))

\* A start answered with an error and a stop the worker ignored, each the
\* only call of its method, settled by their timers.
SettledByTimeout ==
    \E i, j \in 1..Len(emus[1].calls) :
        /\ emus[1].calls[i].method = "start" /\ emus[1].calls[i].state = "rejected"
        /\ emus[1].calls[j].method = "stop" /\ emus[1].calls[j].by = "timeout"
        /\ ~emus[1].emulatorRunning

\* C38: the timer of a call that has already settled, when it fires, leaves
\* pendingCallbacks as it is: it does not remove the callback of a later
\* call of the same method.
C38_TimerOwnCallOnly ==
    [][\A k \in 1..Len(emus[1].calls) :
           (TimerFires(1, k) /\ emus[1].calls[k].state /= "pending") =>
               emus'[1].pendingCallbacks = emus[1].pendingCallbacks]_vars

\* A timer settles no promise but that of its own call.
TimerSettlesOwnCallOnly ==
    [][\A k \in 1..Len(emus[1].calls) :
           TimerFires(1, k) =>
               \A j \in 1..Len(emus[1].calls) :
                   j /= k => emus'[1].calls[j] = emus[1].calls[j]]_vars

\* A later call is never resolved once the timer of an earlier, settled
\* call has removed its callback: a pending call with no callback and no
\* timer left.
Stranded(k) ==
    /\ Made(k)
    /\ emus[1].calls[k].state = "pending"
    /\ emus[1].calls[k].timer = "fired"
NeverStranded == \A k \in 1..MaxOps : ~Stranded(k)

\* ================================================================= C39
\* The k-th symbol typed is k: what tinyemuSendInput has been given is in
\* the order typed, nothing twice, when it is strictly increasing.
C39_InputInOrderOnce ==
    \A i, j \in 1..Len(emus[1].received) :
        i < j => emus[1].received[i] < emus[1].received[j]

\* The text of the input messages on their way to the worker.
InputPosted ==
    LET ms == SelectSeq(emus[1].toWorker, LAMBDA m : m.type = "input")
    IN Concat([i \in 1..Len(ms) |-> ms[i].arg])

\* Every symbol typed is in one place, once: in the terminal's buffer, in a
\* message on its way, or with the emulator.
TypedKeptOnce ==
    LET all == inputBuffer \o InputPosted \o emus[1].received
    IN /\ Len(all) = typed
       /\ {all[i] : i \in 1..Len(all)} = 1..typed

\* The buffer itself holds what was typed in the order typed, and
\* flushInputBuffer sends it as one text.
BufferInOrder ==
    \A i, j \in 1..Len(inputBuffer) : i < j => inputBuffer[i] < inputBuffer[j]

\* Symbols typed before the start were flushed and received.
Flushed ==
    /\ inputBuffer = <<>>
    /\ Len(emus[1].received) >= 2
    /\ \E k \in 1..Len(emus[1].calls) :
           emus[1].calls[k].caller = "startVM" /\ emus[1].calls[k].state = "resolved"

====
